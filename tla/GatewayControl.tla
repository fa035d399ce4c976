--------------------------- MODULE GatewayControl ---------------------------
(***************************************************************************)
(* The launcher's control of the gateway process                           *)
(* (web/backend/api/gateway.go): the web page starts, stops and restarts   *)
(* `nookclaw gateway`, a goroutine waits for each process to end, another  *)
(* asks for its health until it answers, and the page polls the status.    *)
(* gateway.mu is held across a start and a stop, never across a restart,   *)
(* a probe or a wait.                                                      *)
(***************************************************************************)
EXTENDS Integers, FiniteSets
CONSTANTS PageRequests,     \* requests of the page that run at once
          MaxStarts,    \* bound: processes started
          MaxRequests,  \* bound: requests made
          OneAtATime,   \* whether a start or a restart comes only when no restart is under way
          DefaultModels \* the default model of the configuration, as the launcher finds it
VARIABLES proc,          \* the processes started: "runs", "ended" and not waited for, "gone"
          termed,        \* processes told to end
          cmd,           \* gateway.cmd, 0 for nil
          runtimeStatus, late, \* gateway.runtimeStatus; whether startupDeadline is over
          reaper, prober,  \* the goroutines of each process
          booted,        \* whether TryAutoStartGateway has run
          req, made
controlVars == <<proc, termed, cmd, runtimeStatus, late, reaper, prober, booted, req, made>>

\* model_status.go and gatewayStartReady: a default model that exists, is configured, and, when
\* it is served here, answers
OAuthProviders == {"openai", "anthropic", "antigravity", "google-antigravity"}
CommandLines == {"claude-cli", "claudecli", "codex-cli", "codexcli"}
Copilots == {"github-copilot", "copilot"}
RequiresRuntimeProbe(m) ==
    \/ m.auth = "local" \/ m.protocol \in CommandLines \cup Copilots \/ m.base = "local"
    \/ m.protocol \in {"ollama", "vllm"} /\ m.base = ""
HasModelConfiguration(m) ==
    IF m.auth \in {"oauth", "token"} THEN m.protocol \in OAuthProviders => m.cred
    ELSE RequiresRuntimeProbe(m) \/ m.key
ProbeLocalModel(m) ==
    \/ m.protocol \in CommandLines
    \/ m.answers /\ (m.protocol \in {"ollama", "vllm"} \cup Copilots \/ m.base = "local")
StartReady(m) ==
    m.exists /\ HasModelConfiguration(m) /\ (RequiresRuntimeProbe(m) => ProbeLocalModel(m))

Pids == DOMAIN proc
Quiet == OneAtATime => \A r \in PageRequests : req[r].at \in {"idle", "healthy", "sick"}
\* isCmdProcessAliveLocked: a process that ended but was not waited for takes signal 0
CmdAlive(p) == p # 0 /\ proc[p] # "gone"
ControlInit ==
    /\ proc = <<>> /\ termed = {} /\ cmd = 0
    /\ runtimeStatus = "stopped" /\ late = FALSE
    /\ reaper = <<>> /\ prober = <<>>
    /\ req = [r \in PageRequests |-> [at |-> "idle", prev |-> 0]] /\ made = 0 /\ booted = FALSE
\* setGatewayRuntimeStatusLocked
Status(s) == runtimeStatus' = s /\ late' = FALSE
Extended(f, v) == [p \in DOMAIN f \cup {Cardinality(DOMAIN f) + 1} |-> IF p \in DOMAIN f THEN f[p] ELSE v]
\* startGatewayLocked, the process started
Started(status) ==
    /\ Cardinality(Pids) < MaxStarts
    /\ proc' = Extended(proc, "runs") /\ reaper' = Extended(reaper, "waits") /\ prober' = Extended(prober, "sleeps")
    /\ cmd' = Cardinality(Pids) + 1
    /\ Status(status)
    /\ UNCHANGED termed
\* a start is refused over a live process, and while the default model is not ready; a process
\* that is gone is forgotten first
StartRefused == cmd' = 0 /\ (IF cmd = 0 THEN UNCHANGED <<runtimeStatus, late>> ELSE Status("stopped"))
           /\ UNCHANGED <<proc, termed, reaper, prober>>
HandleStart(m) ==
    /\ made < MaxRequests /\ made' = made + 1
    /\ Quiet /\ ~CmdAlive(cmd)
    /\ IF StartReady(m) THEN Started("starting") \/ StartRefused ELSE StartRefused
    /\ UNCHANGED <<booted, req>>
\* TryAutoStartGateway, once, a second after the launcher came up
AutoStart(m) ==
    /\ ~booted /\ booted' = TRUE
    /\ Quiet
    /\ IF CmdAlive(cmd) THEN UNCHANGED <<proc, termed, cmd, runtimeStatus, late, reaper, prober>>
       ELSE \/ StartReady(m) /\ Started("starting")
            \/ cmd' = 0 /\ UNCHANGED <<proc, termed, runtimeStatus, late, reaper, prober>>
    /\ UNCHANGED <<req, made>>
Stoppable == cmd # 0 /\ proc[cmd] # "gone"
HandleStop ==
    /\ made < MaxRequests /\ made' = made + 1
    /\ Stoppable /\ termed' = termed \cup {cmd}
    /\ UNCHANGED <<proc, cmd, runtimeStatus, late, reaper, prober, req, booted>>
-----------------------------------------------------------------------------
Proceeds(r, pc) == req' = [req EXCEPT ![r].at = pc]
HandleRestart(r, m) ==
    /\ made < MaxRequests /\ made' = made + 1
    /\ Quiet /\ req[r].at = "idle" /\ StartReady(m)
    /\ req' = [req EXCEPT ![r] = [at |-> "stop", prev |-> cmd]]
    /\ Status("restarting")
    /\ UNCHANGED <<proc, termed, cmd, reaper, prober, booted>>
\* stopGatewayProcessForRestart: SIGTERM, five seconds, SIGKILL, three seconds
StopPrevious(r) ==
    /\ req[r].at = "stop"
    /\ LET p == req[r].prev
       IN  IF CmdAlive(p) THEN termed' = termed \cup {p} /\ Proceeds(r, "wait") ELSE Proceeds(r, "begin") /\ UNCHANGED termed
    /\ UNCHANGED <<proc, cmd, runtimeStatus, late, reaper, prober, made, booted>>
ExitSeen(r) ==
    /\ req[r].at \in {"wait", "killed"}
    /\ ~CmdAlive(req[r].prev)
    /\ Proceeds(r, "begin")
    /\ UNCHANGED <<proc, termed, cmd, runtimeStatus, late, reaper, prober, made, booted>>
\* a wait without an end
GraceOver_Waits(r) ==
    /\ req[r].at = "wait" /\ ~CmdAlive(req[r].prev)
    /\ Proceeds(r, "killed")
    /\ UNCHANGED <<proc, termed, cmd, runtimeStatus, late, reaper, prober, made, booted>>
GraceOver(r) ==
    /\ req[r].at = "wait" /\ CmdAlive(req[r].prev)
    /\ Proceeds(r, "killed")
    /\ UNCHANGED <<proc, termed, cmd, runtimeStatus, late, reaper, prober, made, booted>>
\* the process is still there: the restart is over, and the status says what is known of it
NotStopped(r) ==
    /\ req[r].at = "killed" /\ CmdAlive(req[r].prev)
    /\ Proceeds(r, "idle")
    /\ IF cmd = req[r].prev THEN Status("running") ELSE UNCHANGED <<runtimeStatus, late>>
    /\ UNCHANGED <<proc, termed, cmd, reaper, prober, made, booted>>
BeginAnew(r) ==
    /\ req[r].at = "begin"
    /\ Proceeds(r, "idle")
    /\ \/ Started("restarting")
       \/ cmd' = 0 /\ Status("error") /\ UNCHANGED <<proc, termed, reaper, prober>>
    /\ UNCHANGED <<booted, made>>
-----------------------------------------------------------------------------
\* a process ends by itself or because it was told to, or is killed by a restart
ProcEnds(p) ==
    /\ proc[p] = "runs"
    /\ proc' = [proc EXCEPT ![p] = "ended"]
    /\ UNCHANGED <<termed, cmd, runtimeStatus, late, reaper, prober, req, made, booted>>
\* cmd.Wait returns, and what it returned is told under the lock; the status of a restart stays
Reaped(p) ==
    /\ proc[p] = "ended" /\ reaper[p] = "waits"
    /\ proc' = [proc EXCEPT ![p] = "gone"] /\ reaper' = [reaper EXCEPT ![p] = "tells"]
    /\ UNCHANGED <<termed, cmd, runtimeStatus, late, prober, req, made, booted>>
TellExit(p) ==
    /\ reaper[p] = "tells" /\ reaper' = [reaper EXCEPT ![p] = "done"]
    /\ IF cmd # p THEN UNCHANGED <<cmd, runtimeStatus, late>>
       ELSE cmd' = 0 /\ (IF runtimeStatus # "restarting" THEN Status("stopped") ELSE UNCHANGED <<runtimeStatus, late>>)
    /\ UNCHANGED <<proc, termed, prober, req, made, booted>>
\* the health goroutine gives up when the process is not the present one, or after 15 seconds;
\* whoever holds the port answers, and its answer counts only for the present process
PortAnswers == \E p \in Pids : proc[p] = "runs"
Probe(p) ==
    /\ prober[p] = "sleeps"
    /\ prober' = [prober EXCEPT ![p] = IF cmd = p /\ PortAnswers THEN "answered" ELSE "done"]
    /\ UNCHANGED <<proc, termed, cmd, runtimeStatus, late, reaper, req, made, booted>>
ProbeTells(p) ==
    /\ prober[p] = "answered" /\ prober' = [prober EXCEPT ![p] = "done"]
    /\ IF cmd = p THEN Status("running") ELSE UNCHANGED <<runtimeStatus, late>>
    /\ UNCHANGED <<proc, termed, cmd, reaper, req, made, booted>>
\* gatewayStatusData: a live process is asked for its health without the lock, and a good or a
\* bad answer becomes the status of whatever process is there by then
HandleStatus(r) ==
    /\ made < MaxRequests /\ made' = made + 1
    /\ req[r].at = "idle" /\ CmdAlive(cmd)
    /\ \E pc \in (IF PortAnswers THEN {"healthy", "sick"} ELSE {}) : Proceeds(r, pc)
    /\ UNCHANGED <<proc, termed, cmd, runtimeStatus, late, reaper, prober, booted>>
StatusTells(r) ==
    /\ req[r].at \in {"healthy", "sick"}
    /\ Proceeds(r, "idle")
    /\ Status(IF req[r].at = "healthy" THEN "running" ELSE "error")
    /\ UNCHANGED <<proc, termed, cmd, reaper, prober, made, booted>>
\* fifteen seconds of startup pass
LatePasses ==
    /\ ~late /\ runtimeStatus \in {"starting", "restarting"} /\ late' = TRUE
    /\ UNCHANGED <<proc, termed, cmd, runtimeStatus, reaper, prober, req, made, booted>>
\* currentGatewayStatusLocked, gatewayStatusOnHealthFailureLocked: what the page is shown when
\* nothing answers
Shown ==
    IF CmdAlive(cmd)
    THEN IF runtimeStatus = "running" \/ (runtimeStatus \in {"starting", "restarting"} /\ ~late) THEN runtimeStatus ELSE "error"
    ELSE IF runtimeStatus = "restarting" THEN (IF late THEN "error" ELSE "restarting")
    ELSE IF runtimeStatus = "error" THEN "error" ELSE "stopped"
ControlNext ==
    \/ HandleStop \/ LatePasses
    \/ \E m \in DefaultModels : HandleStart(m) \/ AutoStart(m)
    \/ \E r \in PageRequests : \/ StopPrevious(r) \/ ExitSeen(r) \/ GraceOver(r) \/ NotStopped(r) \/ BeginAnew(r)
                           \/ HandleStatus(r) \/ StatusTells(r)
                           \/ \E m \in DefaultModels : HandleRestart(r, m)
    \/ \E p \in Pids : ProcEnds(p) \/ Reaped(p) \/ TellExit(p) \/ Probe(p) \/ ProbeTells(p)
ControlSpec == ControlInit /\ [][ControlNext]_controlVars
\* a request goes on, its waits come to an end, and so do the goroutines of a process
Going(r) == StopPrevious(r) \/ ExitSeen(r) \/ GraceOver(r) \/ NotStopped(r) \/ BeginAnew(r) \/ StatusTells(r)
ControlFairness ==
    /\ \A r \in PageRequests : WF_controlVars(Going(r))
    /\ WF_controlVars(LatePasses)
LiveControl == ControlSpec /\ ControlFairness
-----------------------------------------------------------------------------
\* At most one gateway runs: the handler of a start refuses a second one, and the restart
\* "stops the gateway (if running) and starts a new instance".
OneGateway == Cardinality({p \in Pids : proc[p] = "runs"}) <= 1
\* A gateway that runs is the one the launcher knows, so the page can stop it, unless a restart
\* has begun to replace it.
RunningKnown == \A p \in Pids : proc[p] = "runs" => p = cmd
\* A restart ends, whatever the process it stops does.
RestartsEnd == \A r \in PageRequests : [](req[r].at # "idle" => <>(req[r].at = "idle"))
\* The page is not told for ever that the gateway is about to start, once the page asks no more.
Settles == <>[](Shown \notin {"starting", "restarting"})
\* All of above, of handleGatewayStart, handleGatewayRestart, the reapers and the probers, as
\* long as no two of them start or restart at once.
ControlSound == [](OneGateway /\ RunningKnown) /\ RestartsEnd /\ Settles
=============================================================================
