----------------------------- MODULE McpManager -----------------------------
(***************************************************************************)
(* The MCP client manager (pkg/mcp/manager.go) and its start by the agent  *)
(* loop (pkg/agent/loop_mcp.go): whoever comes first (Run or a direct      *)
(* message) connects all servers at once and registers their tools; turns  *)
(* then call them (pkg/tools/mcp_tool.go) until the loop is closed.        *)
(***************************************************************************)
EXTENDS Integers, FiniteSets
CONSTANTS Servers,    \* the configured servers
          ServerCfgs, \* their possible configurations, see Reachable
          ToolUsers,      \* Run, and direct messages: they all ensure that MCP is initialised
          Callers     \* tool calls of turns
VARIABLES cfg, discovery,   \* server -> configuration; "off", "bm25", "none": how hidden tools are found
          once, initErr,    \* initOnce: "free", "loading", "done"; getInitErr
          user,             \* "idle", "waiting", "ready", "refused"
          session,          \* server -> "none", "connecting", "refused", "open", "closed"
          servers,          \* Manager.servers
          offered,          \* servers whose tools are registered with the agents
          runtime,          \* mcpRuntime.manager: "none", "set", "taken"
          managerClosed, wg,       \* Manager.closed, and the calls that wg counts
          closer,           \* Close: "idle", "waiting", "closing", "over"
          caller            \* call -> [at, server]; "checked" and "entered" hold the read lock
mcpVars == <<cfg, discovery, once, initErr, user, session, servers, offered, runtime, managerClosed, wg, closer, caller>>

\* ConnectServer: a configuration names a URL or a command, and perhaps which one counts
TransportType(c) ==
    CASE c.type # "" -> c.type
      [] c.type = "" /\ c.url -> "sse"
      [] c.type = "" /\ ~c.url /\ c.command -> "stdio"
      [] OTHER -> ""
\* loadEnvFile: a relative file needs a workspace, and every line a key
EnvReadable(c) == c.envFile \in {"", "good"}
Reachable(c) ==
    /\ c.envFile # "relative without workspace"
    /\ CASE TransportType(c) \in {"sse", "http"} -> c.url
         [] TransportType(c) = "stdio" -> c.command /\ EnvReadable(c)
         [] OTHER -> FALSE
Enabled == {s \in Servers : cfg[s].enabled}

McpInit ==
    /\ cfg \in [Servers -> ServerCfgs] /\ discovery \in {"off", "bm25", "none"}
    /\ once = "free" /\ initErr = FALSE /\ user = [u \in ToolUsers |-> "idle"]
    /\ session = [s \in Servers |-> "none"] /\ servers = {} /\ offered = {} /\ runtime = "none"
    /\ managerClosed = FALSE /\ wg = {} /\ closer = "idle"
    /\ caller = [c \in Callers |-> [at |-> "idle", server |-> ""]]

\* ensureMCPInitialized: nothing to do without an enabled server; otherwise Once.Do
Ensure(u) ==
    /\ user[u] = "idle"
    /\ user' = [user EXCEPT ![u] = IF Enabled = {} THEN "ready" ELSE "waiting"]
    /\ IF Enabled # {} /\ once = "free"
       THEN once' = "loading" /\ session' = [s \in Servers |-> IF s \in Enabled THEN "connecting" ELSE "none"]
       ELSE UNCHANGED <<once, session>>
    /\ UNCHANGED <<cfg, discovery, initErr, servers, offered, runtime, managerClosed, wg, closer, caller>>
\* Do returns, to the first and to all who waited
Ensured(u) ==
    /\ user[u] = "waiting" /\ once = "done"
    /\ user' = [user EXCEPT ![u] = IF initErr THEN "refused" ELSE "ready"]
    /\ UNCHANGED <<cfg, discovery, once, initErr, session, servers, offered, runtime, managerClosed, wg, closer, caller>>
\* one server's goroutine: the connection may fail, whatever the configuration
ConnectServer(s) ==
    /\ session[s] = "connecting"
    /\ \A c \in Callers : caller[c].at \notin {"checked", "entered"}   \* m.mu.Lock
    /\ \/ /\ Reachable(cfg[s])
          /\ session' = [session EXCEPT ![s] = "open"] /\ servers' = servers \cup {s}
       \/ session' = [session EXCEPT ![s] = "refused"] /\ UNCHANGED servers
    /\ UNCHANGED <<cfg, discovery, once, initErr, user, offered, runtime, managerClosed, wg, closer, caller>>
\* The manager closes what it has; nobody can be calling before it is set
CloseAll == [s \in Servers |-> IF s \in servers THEN "closed" ELSE session[s]]
\* All goroutines are over: no server at all is a warning, discovery without a way to search
\* is an error that every caller gets, and otherwise the manager is kept
Loaded ==
    /\ once = "loading" /\ \A s \in Servers : session[s] # "connecting"
    /\ once' = "done"
    /\ offered' = servers
    /\ IF servers = {} THEN managerClosed' = TRUE /\ UNCHANGED <<initErr, session, servers, runtime>>
       ELSE IF discovery = "none"
       THEN /\ initErr' = TRUE /\ managerClosed' = TRUE /\ session' = CloseAll /\ servers' = {}
            /\ UNCHANGED runtime
       ELSE runtime' = "set" /\ UNCHANGED <<initErr, managerClosed, session, servers>>
    /\ UNCHANGED <<cfg, discovery, user, wg, closer, caller>>

ToolCalls(at) == {c \in Callers : caller[c].at = at}
Call(c, at, s) == caller' = [caller EXCEPT ![c] = [at |-> at, server |-> s]]
\* CallTool: the fast check, and with the read lock the second one
CallTool(c, s) ==
    /\ caller[c].at = "idle" /\ s \in offered /\ \E u \in ToolUsers : user[u] = "ready"
    /\ Call(c, IF managerClosed THEN "failed" ELSE "checked", s)
    /\ UNCHANGED <<cfg, discovery, once, initErr, user, session, servers, offered, runtime, managerClosed, wg, closer>>
\* the connection, counted while the lock is held
Enter(c) ==
    /\ caller[c].at = "checked"
    /\ IF caller[c].server \in servers THEN Call(c, "calling", caller[c].server) /\ wg' = wg \cup {c}
       ELSE Call(c, "failed", caller[c].server) /\ UNCHANGED wg
    /\ UNCHANGED <<cfg, discovery, once, initErr, user, session, servers, offered, runtime, managerClosed, closer>>
\* a call that is counted out only when it succeeds
Return_OnSuccess(c) ==
    /\ caller[c].at = "calling"
    /\ \E ok \in BOOLEAN : /\ Call(c, IF ok THEN "returned" ELSE "failed", caller[c].server)
                           /\ wg' = IF ok THEN wg \ {c} ELSE wg
    /\ UNCHANGED <<cfg, discovery, once, initErr, user, session, servers, offered, runtime, managerClosed, closer>>
Return(c) ==
    /\ caller[c].at = "calling"
    /\ \E ok \in BOOLEAN : Call(c, IF ok THEN "returned" ELSE "failed", caller[c].server)
    /\ wg' = wg \ {c}
    /\ UNCHANGED <<cfg, discovery, once, initErr, user, session, servers, offered, runtime, managerClosed, closer>>
NextCall(c) ==
    /\ caller[c].at \in {"returned", "failed"}
    /\ Call(c, "idle", "")
    /\ UNCHANGED <<cfg, discovery, once, initErr, user, session, servers, offered, runtime, managerClosed, wg, closer>>
\* AgentLoop.Close takes the manager, when there is one, and Close swaps the flag
CloseLoop ==
    /\ closer = "idle"
    /\ IF runtime = "set" THEN runtime' = "taken" /\ managerClosed' = TRUE /\ closer' = "waiting"
       ELSE closer' = "over" /\ UNCHANGED <<runtime, managerClosed>>
    /\ UNCHANGED <<cfg, discovery, once, initErr, user, session, servers, offered, wg, caller>>
\* wg.Wait
Waited ==
    /\ closer = "waiting" /\ wg = {}
    /\ closer' = "closing"
    /\ UNCHANGED <<cfg, discovery, once, initErr, user, session, servers, offered, runtime, managerClosed, wg, caller>>
\* and, once no reader holds the lock, the sessions are closed
CloseSessions ==
    /\ closer = "closing" /\ ToolCalls("checked") = {}
    /\ session' = CloseAll /\ servers' = {}
    /\ closer' = "over"
    /\ UNCHANGED <<cfg, discovery, once, initErr, user, offered, runtime, managerClosed, wg, caller>>
McpNext ==
    \/ \E u \in ToolUsers : Ensure(u) \/ Ensured(u)
    \/ \E s \in Servers : ConnectServer(s)
    \/ Loaded \/ CloseLoop \/ Waited \/ CloseSessions
    \/ \E c \in Callers : (\E s \in Servers : CallTool(c, s)) \/ Enter(c) \/ Return(c) \/ NextCall(c)
McpSpec == McpInit /\ [][McpNext]_mcpVars
\* connections are made or fail, tools answer or time out, and goroutines run
McpFairness ==
    /\ WF_mcpVars(Loaded) /\ WF_mcpVars(Waited) /\ WF_mcpVars(CloseSessions)
    /\ \A s \in Servers : WF_mcpVars(ConnectServer(s))
    /\ \A u \in ToolUsers : WF_mcpVars(Ensured(u))
    /\ \A c \in Callers : WF_mcpVars(Enter(c)) /\ WF_mcpVars(Return(c))
LiveMcp == McpSpec /\ McpFairness
-----------------------------------------------------------------------------
\* Whoever goes on with MCP initialised finds every server settled and all their tools
\* registered, also when it came second (ensureMCPInitialized is shared by Run and
\* direct messages).
ReadyMeansLoaded ==
    \A u \in ToolUsers : (user[u] = "ready" /\ Enabled # {})
        => /\ \A s \in Servers : session[s] # "connecting"
           /\ \A s \in Servers : session[s] = "open" => s \in offered
\* A close of the loop that found a manager ends with its sessions closed, though calls
\* are running, fail and begin meanwhile.
CloseEnds == (closer = "waiting") ~> (closer = "over" /\ \A s \in Servers : session[s] # "open")
\* The two of above, of ensureMCPInitialized, LoadFromMCPConfig and Close.
McpSound == []ReadyMeansLoaded /\ CloseEnds
\* No session is closed under a call that uses it.  (Does not hold: a call that passed its
\* look at the closed flag is counted after Close has waited.)
SessionsCloseIdle == \A c \in Callers : caller[c].at = "calling" => session[caller[c].server] = "open"
=============================================================================
