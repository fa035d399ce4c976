SPECIFICATION SafetySpec
CONSTANTS
    MaxHistory = 4
    CallIds = {"c1", "c2"}
    MaxMedia = 3
    Sources = {"SOUL.md"}
    Skills = {"weather"}
    Notes = {"today"}
    Turns = {"t1", "t2"}
    MaxWrites = 3
    Tools = {"h1", "h2"}
    Rounds = {"r1", "r2"}
    TTL = 2
    MaxVersion = 2
    MaxRounds = 3
    Subagents = {}
    MaxSteps = 2
    Calls = {"c1", "c2"}
    Configs <- MCModelConfigs
    Errors <- MCErrors
    Instants = {11, 18000}
    Flows = {"f1"}
    Workers = {"w1", "w2"}
    Models <- MCModelList
    MaxJobs = 2
    CanFail = TRUE
    Chats = {"c1", "c2"}
    MaxChanges = 3
    Monitor = TRUE
    SessionKeys <- MCKeys
    Summarised = {"b"}
    MaxAdded = 4
    MaxStops = 1
    Failing = {"init", "read", "history", "summary", "rename", "save"}
    Capacity = 2
    MaxLines = 4
    MaxRuns = 3
    Inbound <- MCInbound
    RouteConfigs <- MCRoutes
    IdentityLinks <- MCLinks
    LowerCase <- MCLower
    MaxRouted = 2
    Conns = {"c1", "c2"}
    Sessions = {"s1", "s2"}
    MaxConnections = 1
    MaxSends = 1
    Parts = 2
    MaxRetries = 2
    Ids = {"a", "b", "c"}
    Size = 2
    EntryTTL = 3
    MaxNow = 4
    MaxSeen = 4
    Deliveries = 2
    Senders = {"s1", "s2"}
    Handlers = {"h1"}
    Incoming = {"m1", "m2"}
    Answerers = {"w1"}
    Messages <- MCTexts
    Limits = {60}
CHECK_DEADLOCK FALSE
INVARIANTS  CacheSound SearchSound CredSound HistoryInOrder ShownInOrder SessionsApart PicoSound IntakeSound  TablesSound NumbersUnique NoneLeftTyping SplitSound
PROPERTIES ChainSound 
