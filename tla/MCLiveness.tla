----------------------------- MODULE MCLiveness -----------------------------
(***************************************************************************)
(* The components that have to come to an end, or to come back, each on a  *)
(* small instance and under the fairness of its own module.  They share no *)
(* state with each other: part is the component that moves, the others     *)
(* stay as they begin.                                                     *)
(***************************************************************************)
EXTENDS AgentTurns, AgentTools, MediaStore, McpManager, GatewayControl, OneBotLink, WeComStreams, ChannelLifecycle,
        NativeLink
CONSTANTS main, other   \* the two agents
VARIABLE part           \* the component that moves
-----------------------------------------------------------------------------
\* AgentTurns: what the environment does, in six worlds
MCAgents == {main, other}
World(users, writes, sides, kinds, reloading, model, rounds, iterations) ==
    [users |-> users, writes |-> writes, sides |-> sides, kinds |-> kinds, reloads |-> reloading,
     model |-> model, rounds |-> rounds, iterations |-> iterations]
ToMain  == <<"user", main>>
ToOther == <<"user", other>>
Slash   == <<"command", main>>
TwoAgents == World(2, {ToMain, ToOther}, 0, {}, 0, {"answer", "tools"}, {<<"message">>}, 1)
MCWorlds ==
    {TwoAgents,
     World(1, {ToMain, Slash}, 1, {"cron"}, 0, {"answer", "tools"}, {<<"message">>}, 1),
     World(1, {ToMain}, 1, {"cron"}, 0, {"answer", "tools", "long"}, {<<"plain">>}, 1),
     World(2, {ToMain}, 0, {}, 0, {"answer", "tools", "long"}, {<<"plain", "plain">>}, 2),
     World(1, {ToMain}, 1, {"heartbeat"}, 1, {"answer", "tools", "timeout", "fail"}, {<<"message">>}, 1),
     World(1, {ToMain}, 0, {}, 0, {"answer", "tools"}, {<<"async", "plain">>}, 1)}
\* McpManager: a remote server, a local one without its environment file, a disabled one
Server(enabled, type, url, command, envFile) ==
    [enabled |-> enabled, type |-> type, url |-> url, command |-> command, envFile |-> envFile]
MCServers == {Server(TRUE, "", TRUE, FALSE, ""), Server(TRUE, "stdio", FALSE, TRUE, "bad"), Server(FALSE, "", FALSE, TRUE, "")}
\* GatewayControl: a model of a provider without its login, a local one that answers
Model(protocol, auth, answers) ==
    [exists |-> TRUE, protocol |-> protocol, auth |-> auth, base |-> "", key |-> FALSE, cred |-> FALSE, answers |-> answers]
MCDefaults == {Model("openai", "oauth", FALSE), Model("ollama", "", TRUE)}
-----------------------------------------------------------------------------
Components == {"turns", "subagents", "media", "mcp", "control", "onebot", "wecom", "life",
               "whatsapp"}
\* What rests is in a state where nothing has to go on: an initial one, or, of a link and of an
\* adapter, which would start at once, one after a stop.
LivenessInit ==
    /\ part \in Components
    /\ TurnInit   /\ (part # "turns" => world = TwoAgents)
    /\ McpInit    /\ (part # "mcp" => discovery = "off" /\ cfg = [s \in Servers |-> Server(FALSE, "", FALSE, TRUE, "")])
    /\ NativeInit /\ (part # "whatsapp" => paired)
    /\ IF part = "onebot" THEN LinkInit
       ELSE /\ dialled = 0 /\ alive = {} /\ conn = NoConn /\ dialer = [at |-> "end", new |-> NoConn]
            /\ reader = [k \in Conn |-> "none"] /\ stopped = TRUE /\ closing = FALSE /\ pending = {} /\ request = [r \in Requests |-> [at |-> "failed", on |-> NoConn]]
    /\ IF part = "life" THEN LifeInit
       ELSE /\ kind = TelegramLife /\ nextStep = 1 /\ phase = "stopped" /\ happened = {} /\ isRunning = FALSE
            /\ live = {} /\ device = "none"
    /\ ToolsInit /\ MediaInit /\ ControlInit /\ StreamsInit
LivenessNext ==
    /\ UNCHANGED part
    /\ IF part = "turns" THEN TurnNext ELSE UNCHANGED turnVars
    /\ IF part = "subagents" THEN SubagentNext ELSE UNCHANGED toolVars
    /\ IF part = "media" THEN MediaNext ELSE UNCHANGED mediaVars
    /\ IF part = "mcp" THEN McpNext ELSE UNCHANGED mcpVars
    /\ IF part = "control" THEN ControlNext ELSE UNCHANGED controlVars
    /\ IF part = "onebot" THEN LinkNext ELSE UNCHANGED linkVars
    /\ IF part = "wecom" THEN StreamsNext ELSE UNCHANGED streamVars
    /\ IF part = "life" THEN LifeNext ELSE UNCHANGED lifeVars
    /\ IF part = "whatsapp" THEN NativeNext ELSE UNCHANGED nativeVars
livenessVars == <<part, turnVars, toolVars, mediaVars, mcpVars, controlVars, linkVars, streamVars,
                  lifeVars, nativeVars>>
Fairness ==
    /\ TurnFairness /\ TaskFairness /\ MediaFairness /\ McpFairness /\ ControlFairness
    /\ LinkFairness /\ LifeFairness /\ StreamsFairness /\ NativeFairness
LivenessSpec == LivenessInit /\ [][LivenessNext]_livenessVars /\ Fairness
=============================================================================
