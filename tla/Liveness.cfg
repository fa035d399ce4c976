SPECIFICATION LivenessSpec
CONSTANTS
    main = main
    other = other
    Agents <- MCAgents
    DefaultAgent = main
    SummarizeAt = 4
    MaxTurns = 3
    Worlds <- MCWorlds
    Tools = {}
    Rounds = {}
    TTL = 1
    MaxVersion = 0
    MaxRounds = 0
    Subagents = {"k1", "k2"}
    MaxSteps = 2
    Refs = {"r1", "r2"}
    Downloads = {"d1"}
    Sendable = {"w1"}
    Scopes = {"s1"}
    MaxAge = 1
    MaxReloads = 1
    Servers = {"s1", "s2"}
    ServerCfgs <- MCServers
    ToolUsers = {"run", "direct"}
    Callers = {"c1", "c2"}
    PageRequests = {"q1", "q2"}
    MaxStarts = 2
    MaxRequests = 2
    OneAtATime = TRUE
    DefaultModels <- MCDefaults
    Dials = 3
    Requests = {"a1"}
    Texts = 2
    Losses = 2
CHECK_DEADLOCK FALSE
 
PROPERTIES TurnEnds TasksReported MediaSound McpSound ControlSound LinkSound StreamsSound NothingSurvives NativeSound
