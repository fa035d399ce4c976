----------------------------- MODULE AgentTools -----------------------------
(***************************************************************************)
(* The tool registry of one agent (pkg/tools/registry.go): core tools are  *)
(* always offered to the model, hidden ones only while their time to live  *)
(* lasts.  Turns offer and call tools; the search tool looks for hidden    *)
(* tools in an index it caches by registry version (search_tool.go), and   *)
(* promotes what it finds; the MCP manager registers tools meanwhile.      *)
(* Spawned subagents run in the background (subagent.go, toolloop.go).     *)
(***************************************************************************)
EXTENDS Integers, FiniteSets

CONSTANTS Tools,       \* tool names
          Rounds,      \* the turns that may work with the registry at once
          TTL,         \* tools.mcp.discovery.ttl
          MaxVersion,  \* bound: registrations
          MaxRounds,   \* bound: rounds of each turn
          Subagents,   \* bound: spawned tasks
          MaxSteps     \* maxIterations of RunToolLoop

ASSUME ToolsAssumption ==
    /\ TTL \in Nat \ {0} /\ MaxVersion \in Nat /\ MaxRounds \in Nat /\ MaxSteps \in Nat \ {0}

VARIABLES
    tool,     \* tool[n]: [kind, ttl], kind "none", "core" or "hidden"
    version,  \* incremented by every registration
    index,    \* the cached engine: the hidden tools it knows, or NoIndex
    indexAt,  \* cacheVersion
    round,    \* round[r]: where turn r is in its round of tool calls
    task,     \* task[k]: the subagent k
    calls     \* calls[k]: how often the callback of task k was called
toolVars == <<tool, version, index, indexAt, round, task, calls>>
registry == <<tool, version>>
cache    == <<index, indexAt>>
subagent == <<task, calls>>

NoIndex   == {"no index"}
NotThere  == [kind |-> "none", ttl |-> 0]
NoRound   == [pc |-> "idle", n |-> 0, offered |-> {}, found |-> {}, known |-> {},
              snap |-> {}, at |-> 0, alone |-> TRUE, due |-> {}]
NoTask    == [pc |-> "none", steps |-> 0, dead |-> FALSE]

Hidden    == {n \in Tools : tool[n].kind = "hidden"}
Get(n)    == tool[n].kind = "core" \/ (tool[n].kind = "hidden" /\ tool[n].ttl > 0)
ToProviderDefs == {n \in Tools : Get(n)}

ToolsInit ==
    /\ tool = [n \in Tools |-> NotThere] /\ version = 0 /\ index = NoIndex /\ indexAt = 0
    /\ round = [r \in Rounds |-> NoRound]
    /\ task = [k \in Subagents |-> NoTask] /\ calls = [k \in Subagents |-> 0]

\* A step on the registry by somebody else: a turn is not alone with what it was
\* offered, and nothing is due to it.
Disturb(Q) == [q \in Rounds |-> IF q \in Q THEN [round[q] EXCEPT !.alone = FALSE, !.due = {}] ELSE round[q]]
\* A registration disturbs everybody, and a tool that it makes a core one is not looked for any more.
Registered(n, kind) ==
    [q \in Rounds |-> [Disturb(Rounds)[q] EXCEPT !.known = IF kind = "core" THEN @ \ {n} ELSE @]]

\* a registration that forgets the version
Register_SameVersion(n, kind) ==
    /\ version < MaxVersion /\ version' = version
    /\ tool' = [tool EXCEPT ![n] = [kind |-> kind, ttl |-> 0]]
    /\ round' = Registered(n, kind)
    /\ UNCHANGED <<cache, subagent>>
\* Register and RegisterHidden, which replace a tool of that name.
Register(n, kind) ==
    /\ version < MaxVersion /\ version' = version + 1
    /\ tool' = [tool EXCEPT ![n] = [kind |-> kind, ttl |-> 0]]
    /\ round' = Registered(n, kind)
    /\ UNCHANGED <<cache, subagent>>

\* An iteration begins: the model is offered the visible tools ...
Offer(r) ==
    /\ round[r].pc = "idle" /\ round[r].n < MaxRounds
    /\ round' = [round EXCEPT ![r] = [NoRound EXCEPT !.pc = "called", !.n = round[r].n + 1,
                                          !.offered = ToProviderDefs, !.due = round[r].due]]
    /\ UNCHANGED <<registry, cache, subagent>>
\* ... and may call the search tool, which notes the version (getOrBuildEngine) ...
Search(r) ==
    /\ round[r].pc = "called"
    /\ round' = [round EXCEPT ![r].known = Hidden, ![r].due = {},
           ![r].pc = IF index # NoIndex /\ indexAt = version THEN "hit" ELSE "snapshot"]
    /\ UNCHANGED <<registry, cache, subagent>>
\* ... takes the engine that is cached by the time it returns it ...
Cached(r) ==
    /\ round[r].pc = "hit"
    /\ round' = [round EXCEPT ![r].pc = IF index = NoIndex THEN "answered" ELSE "found",
                              ![r].found = IF index = NoIndex THEN {} ELSE index]
    /\ UNCHANGED <<registry, cache, subagent>>
\* ... or, under cacheMu, a snapshot of tools and version, and builds one ...
Snapshot(r) ==
    /\ round[r].pc = "snapshot" /\ \A q \in Rounds : round[q].pc # "build"
    /\ round' = IF index # NoIndex /\ indexAt = version
                THEN [round EXCEPT ![r].pc = "found", ![r].found = index]
                ELSE [round EXCEPT ![r].pc = "build", ![r].snap = Hidden, ![r].at = version]
    /\ UNCHANGED <<registry, cache, subagent>>
Build(r) ==
    /\ round[r].pc = "build"
    /\ index' = (IF round[r].snap = {} THEN NoIndex ELSE round[r].snap) /\ indexAt' = round[r].at
    /\ round' = [round EXCEPT ![r].pc = IF round[r].snap = {} THEN "answered" ELSE "found",
                              ![r].found = round[r].snap]
    /\ UNCHANGED <<registry, subagent>>
\* ... and PromoteTools unlocks those of the ranked tools that are hidden.
Promote(r) ==
    /\ round[r].pc = "found"
    /\ \E ranked \in SUBSET round[r].found :
        LET up == ranked \cap Hidden IN
        /\ tool' = [n \in Tools |-> IF n \in up THEN [tool[n] EXCEPT !.ttl = TTL] ELSE tool[n]]
        /\ round' = [Disturb(Rounds \ {r}) EXCEPT ![r].pc = "answered", ![r].due = up]
    /\ UNCHANGED <<version, cache, subagent>>

\* Or it calls one of the offered tools; ExecuteWithContext refuses a tool that is not visible.
Use(r) ==
    /\ round[r].pc = "called"
    /\ round' = [round EXCEPT ![r].pc = "answered", ![r].due = {}]
    /\ UNCHANGED <<registry, cache, subagent>>

\* The results are saved: every hidden tool loses one round of its time.
TickTTL(r) ==
    /\ round[r].pc = "answered"
    /\ tool' = [n \in Tools |-> [tool[n] EXCEPT !.ttl = IF tool[n].kind = "hidden" /\ @ > 0 THEN @ - 1 ELSE @]]
    /\ round' = [Disturb(Rounds \ {r}) EXCEPT ![r].pc = "idle", ![r].due = IF round[r].alone THEN @ ELSE {}]
    /\ UNCHANGED <<version, cache, subagent>>

\* Spawn registers the task and starts a goroutine; the turn's context may end.
Spawn(k) ==
    /\ task[k].pc = "none" /\ task' = [task EXCEPT ![k].pc = "started"]
    /\ UNCHANGED <<registry, cache, round, calls>>
CancelContext(k) ==
    /\ task[k].pc \in {"started", "running"} /\ ~task[k].dead
    /\ task' = [task EXCEPT ![k].dead = TRUE]
    /\ UNCHANGED <<registry, cache, round, calls>>
\* runTask: a context that has already ended leaves without a word.
RunTask(k) ==
    /\ task[k].pc = "started"
    /\ task' = [task EXCEPT ![k].pc = IF task[k].dead THEN "canceled" ELSE "running"]
    /\ UNCHANGED <<registry, cache, round, calls>>
\* RunToolLoop: one call of the model; tools, an answer, or an error.
LoopStep(k) ==
    /\ task[k].pc = "running"
    /\ task' \in {[task EXCEPT ![k].pc = "completed"],
                  [task EXCEPT ![k].pc = IF task[k].dead THEN "stopped" ELSE "failed"],
                  IF task[k].steps + 1 = MaxSteps THEN [task EXCEPT ![k].pc = "completed"]
                                                  ELSE [task EXCEPT ![k].steps = @ + 1]}
    /\ UNCHANGED <<registry, cache, round, calls>>
\* a callback for success alone
Report_OnSuccess(k) ==
    /\ task[k].pc = "completed" /\ calls[k] = 0
    /\ calls' = [calls EXCEPT ![k] = 1]
    /\ UNCHANGED <<registry, cache, round, task>>
\* The deferred callback, after the lock is given back.
Report(k) ==
    /\ task[k].pc \in {"completed", "failed", "stopped"} /\ calls[k] = 0
    /\ calls' = [calls EXCEPT ![k] = 1]
    /\ UNCHANGED <<registry, cache, round, task>>

Searching(r) == Cached(r) \/ Snapshot(r) \/ Build(r) \/ Promote(r)
Working(k)   == RunTask(k) \/ LoopStep(k) \/ Report(k)
RegistryNext ==
    \/ \E n \in Tools, kind \in {"core", "hidden"} : Register(n, kind)
    \/ \E r \in Rounds : Offer(r) \/ Search(r) \/ Searching(r) \/ Use(r) \/ TickTTL(r)
SubagentNext == \E k \in Subagents : Spawn(k) \/ CancelContext(k) \/ Working(k)
ToolsNext == RegistryNext \/ SubagentNext
-----------------------------------------------------------------------------
\* The variables keep their types: a time to live is never negative, and core
\* tools have none.
ToolsTypeOK ==
    /\ \A n \in Tools : tool[n].ttl \in 0..TTL /\ (tool[n].kind # "hidden" => tool[n].ttl = 0)
    /\ version \in 0..MaxVersion /\ indexAt \in 0..version
    /\ (index = NoIndex \/ index \subseteq Tools) /\ \A k \in Subagents : task[k].steps < MaxSteps

\* A search works on an index that knows every hidden tool registered before it
\* began and hidden since, although registrations and other searches run meanwhile
\* (search_tool.go:247-279).
SearchKnowsAll ==
    \A r \in Rounds : round[r].pc = "found" => round[r].known \subseteq round[r].found

\* What the model was offered can be called, and what a search promoted is offered
\* in the next round, as long as no other turn or registration came in between and
\* the time to live is longer than the round itself ("in your next response, you
\* can call them directly", search_tool.go:209).
OfferedCallable ==
    \A r \in Rounds : (round[r].pc = "called" /\ round[r].alone) =>
        /\ \A n \in round[r].offered : Get(n)
        /\ TTL > 1 => round[r].due \subseteq round[r].offered

\* Nobody hears of a task twice.
ReportedOnce == \A k \in Subagents : calls[k] <= 1
\* What the caller of a subagent hears of it, ReportedOnce included: a task that began to run is
\* reported in the end, whether it succeeds, fails or is stopped; only one whose context had
\* ended before is not (subagent.go:131).
TasksReported == /\ []ReportedOnce
                 /\ \A k \in Subagents : task[k].pc = "running" ~> calls[k] = 1

\* A search and the rounds around it, together (search_tool.go, registry.go).
SearchSound == ToolsTypeOK /\ SearchKnowsAll /\ OfferedCallable

\* a subagent's goroutine goes on
TaskFairness == \A k \in Subagents : WF_toolVars(Working(k))
ToolsSpec == ToolsInit /\ [][ToolsNext]_toolVars /\ TaskFairness
=============================================================================
