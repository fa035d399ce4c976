# NookClaw in TLA+

This directory is the verification project kept beside NookClaw, a personal AI
assistant in Go: a gateway process that connects chat platforms to agents that
talk to language models, keeps sessions on disk and runs scheduled jobs, and a
launcher with a web page that controls it. The modules model the parts whose
correctness depends on interleavings, crashes, failures and limits; TLC checks
them on small instances and TLAPS proves most of their safety properties for every
value of their constants.

Paths below are relative to the repository root. `PROJECT.json` maps every
definition to the lines it models, and lists the hazards, the runs and, for each
property, a change of the code that breaks it.

## 1. Inventory

    platforms -> adapters -> [ bus: inbound ] -> agent loop -> fallback chain -> providers
                    |                              |  |  |
               media store                  sessions  |  tools, MCP servers, subagents
                                                      v
    platforms <- adapters <- workers <- dispatchers <- [ bus: outbound, media ]
                  cron, heartbeat, devices, subagents ---^ (publish, or call the agent)

    web page -> launcher -> starts, stops, watches the gateway process; login flows

| Component | State it keeps | Operations | What makes it correct |
|---|---|---|---|
| Session store, `pkg/memory` | per session a `.jsonl` and a `.meta.json` file; 64 shard locks | AddMessage, GetHistory, SetSummary, TruncateHistory, SetHistory, Compact | an acknowledged message survives crashes until it is removed; order is kept |
| Session backends, `pkg/session`, `pkg/memory/migration.go` | the old JSON files or the store, chosen at each start | migrate, fall back, Save | migration may be interrupted and repeated; a history has nothing twice |
| Message bus, `pkg/bus` | three buffered channels, a flag, a channel `done` | Publish*, Consume/Subscribe*, Close | nothing in two places or lost while open; nobody blocked for ever |
| Channel manager, `pkg/channels/manager.go`, `base.go` | channels, workers with two queues, dispatch context, typing/reaction/placeholder maps | StartAll, StopAll, dispatch, workers, SendMessage, preSend, janitor | order per channel, bounded copies, a stop that ends and leaves nothing running, no indicator left on |
| Splitting, `pkg/channels/split.go` | none | SplitMessage | chunks fit, code blocks stay closed, no text is lost, the loop ends |
| Adapters, `pkg/channels/*` | connections, deduplication tables, streams, counters | the handler of an event, Send, SendMedia, Start, Stop | only invited messages get through, once; a sent message was shown; a stop leaves nothing behind |
| Cron, `pkg/cron`, `pkg/tools/cron.go` | jobs in memory and in `jobs.json` | Start, Stop, the tick, Add/Update/Remove/EnableJob, `nookclaw cron` | a one-time job runs at most once, a due job runs, an added job is kept |
| Agent loop, `pkg/agent` | histories, summarisers under way, the message tool's flag, the provider | processMessage, runLLMIteration, summarizeSession, forceCompression, ReloadProviderAndConfig | a turn ends, calls and results stay paired, a user is answered |
| Context, `pkg/agent/context.go` | the cached prompt, with times and paths of its files | BuildMessages, sanitizeHistoryForProvider, the cache | a provider accepts the prompt, and it shows the files as they are |
| Fallback, `pkg/providers` | error counts and two ends of cooldown per provider | Execute, MarkFailure, MarkSuccess, ClassifyError | no call to a provider that is left alone; counts agree |
| Media store, `pkg/media` | references, scopes, files | Store, Resolve, CleanExpired | what resolves has its file; files go some time |
| Tools, `pkg/tools` | entries with a time to live, a cached index, subagent tasks | Register, PromoteTools, TickTTL, search, Spawn | what was offered can be called; a search knows all; a task is reported once |
| MCP manager, `pkg/mcp` | sessions, a closed flag, a count of calls | LoadFromMCPConfig, CallTool, Close | initialised means loaded; Close ends |
| State, heartbeat, devices | the last channel in a file and three copies, services | SetLastChannel, Start, Stop, beats, notices | nothing goes to the console, a stopped service is silent |
| Routing, `pkg/routing` | none | ResolveRoute, session keys | conversations and sessions are one to one |
| Gateway, `cmd/nookclaw/internal/gateway` | the running services, the configuration seen last | start, reload, shutdown, poll | after a reload the services run |
| Web backend, `web/backend` | the gateway process and its status, its log, login flows | start, stop, restart, status, logs, OAuth handlers | one gateway, the one the page knows; a success means a saved credential |
| Authentication, `pkg/auth` | the credentials file | login, logout, refresh | the same |

The hard behaviours: a crash or a failed write between the two files of a
session; publishers, callers and dials that are past a check when something
closes; a reload that stops and starts services while their goroutines go on;
retries after timeouts; state read before a model answers and used after it;
tables at their limit; several writers of one file, in one process and in two.

## 2. Modules

| Module | Models | Variables stand for |
|---|---|---|
| `SessionLog` | what `memory.Store` promises of one session | abstract specification |
| `JSONLStore` | `pkg/memory/jsonl.go`; implements `SessionLog` | the two files, the operation under way |
| `JSONLStoreProofs` | theorems about `JSONLStore`, its refinement of `SessionLog` among them | |
| `SessionBackends` | `instance.go` initSessionStore, `migration.go`, `session/manager.go` | both sets of files, the memory of the backend in use, the step of a migration |
| `MessageBus` | `pkg/bus/bus.go` | buffers, flag, `done`, the step of each call |
| `MessageProofs` | theorems about `MessageBus` and `MessageSplit` | |
| `ChannelManager` | `manager.go`, the reload in `gateway/helpers.go` | bus, queues, dispatchers, workers, phases of StopAll |
| `ChannelManagerProofs` | theorems about `ChannelManager` | |
| `ChannelPresence` | `base.go` HandleMessage, `manager.go` Record*, preSend, janitor | what a chat shows, the maps, who holds which undo |
| `MessageSplit` | `split.go` | the rest of a text and the chunks |
| `ChannelIntake` | the event handlers of the adapters | one event and what was made of it |
| `ChannelSend` | Send and SendMedia of the adapters, `sendWithRetry` | one message, what the chat has seen |
| `AdapterCaches` | `wecom/dedupe.go`, `onebot.go`, `qq.go`, Matrix's room cache | the ring, the dated map, the cache |
| `QQReplies` | `qq.go`: numbering of answers | last id, counters, sends under way |
| `PicoSockets` | `pico/pico.go` | sockets, the map, the counter |
| `OneBotLink` | `onebot.go`: connection, reconnectLoop, Stop | connections, dialler, listeners, requests |
| `NativeLink` | `whatsapp_native.go`: reconnecting against Stop | flags, wait group, store |
| `WeComStreams` | `wecom/aibot.go` | tasks, queue, channels of one place, polls |
| `ChannelLifecycle` | Start and Stop of the other adapters | the step, the goroutines that live |
| `CronService` | `pkg/cron/service.go`, `pkg/tools/cron.go`, `nookclaw cron` | memory of each service, the file, the job under way |
| `CronServiceProofs` | theorems about `CronService` | |
| `AgentTurns` | `pkg/agent/loop.go` | histories, the turn of each worker, summaries, flags, provider generations |
| `AgentTurnsProofs` | theorems about `AgentTurns` | |
| `AgentPrompt` | `context.go` sanitizing, `loop.go` splits and transcriptions | the input that grows |
| `PromptCache` | `context.go`: the cache | files, cache, builds |
| `AgentTools` | `registry.go`, `search_tool.go`, `subagent.go`, `toolloop.go` | entries, index, rounds, tasks |
| `ProviderFallback` | `fallback.go`, `cooldown.go`, `error_classifier.go`, the loop's retries | clock, entries, calls |
| `MediaStore` | `pkg/media/store.go`, `send_file.go`, `loop_media.go` | references, disk, cleaner |
| `McpManager` | `pkg/mcp/manager.go`, `loop_mcp.go`, `mcp_tool.go` | sessions, users, calls, Close |
| `Heartbeat` | `state.go`, `heartbeat/service.go`, `devices/service.go` | file, copies, services, beats |
| `Routing` | `pkg/routing` | configuration, what was routed where |
| `GatewayControl` | `web/backend/api/gateway.go` | processes, status, requests, reapers, probers |
| `LogView` | `web/backend/api/log.go`, `gateway.go` gatewayLogsData, the page | ring, request, page |
| `Credentials` | `web/backend/api/oauth.go`, `pkg/auth`, `internal/auth/helpers.go` | file, configuration, flows, workers |
| `ServiceProofs` | theorems about `PromptCache`, `AgentTools`, `Credentials`, `SessionBackends`, `Heartbeat`, `McpManager`, `MediaStore`, `ProviderFallback`, `GatewayControl` | |
| `AdapterProofs` | theorems about `PicoSockets`, `QQReplies`, `ChannelPresence`, `ChannelIntake`, `AdapterCaches`, `OneBotLink`, `NativeLink`, `WeComStreams` | |
| `EdgeProofs` | theorems about `ChannelSend`, `LogView`, `Routing`, `AgentPrompt` | |
| `MC*` | constants for TLC; `MCSafety` and `MCLiveness` put components side by side | |

An operator whose name ends in `_Something` beside an action (`DrainOne_Peeks`
beside `DrainOne` of the bus) is the form a plausible bug would give the
code. No specification uses one; each shows that a property can fail
(`PROJECT.json`, "mutants").

### Which modules interact, and how they are composed

The bus and the manager, the store and the agent's turns, and the store and its
backends interact. They meet at an interface that one of them states and the
other assumes: `SessionLog` (the store implements it; `AgentTurns` and
`SessionBackends` use an operation of the store as one step), the FIFO bus that
`ChannelManager` has (what `MessageBus` keeps: each accepted message once, in
order of the buffer), and the outcomes of a Send (`ChannelManager` lets a Send
succeed, fail for good, or fail after it may have arrived; `ChannelSend` shows
for each adapter how it comes to one of them). The reload of the gateway is an
action of each module that it reaches.

The other components share no state. `MCSafety` and `MCLiveness` extend sixteen
and nine of them and check them one at a time in one run: the variable `part`
says which component moves; the others rest in an initial state (where a
component has several, in one of them) or, where an initial state would oblige
them to go on, in one after a stop. Each property is therefore checked in all
behaviours of its own module, and holds trivially in the others; that the
instances are not too small is what the mutants show, each of which is found
with the constants of the run. Fairness is the conjunction of the modules' own;
a component at rest has nothing that its fairness would force.

### The core modules

**JSONLStore.** `lines` is the message file, `meta` the metadata (`summary`,
`skip`, `count`), `torn` says that the last line has no newline. All operations
take the session's lock for their whole length, so at most one is in progress:
`op` is what it will write and `pc` its next write. `Interrupt` ends an operation
before its next write is complete; since the store keeps nothing in memory, a
process that dies and a write that returns an error leave the same state. When
`TornWrites` is TRUE an interrupted append may also leave part of a line, or a
line without its newline. Metadata and rewrites go through
`fileutil.WriteFileAtomic`, which replaces a file or does not. `offered`,
`returned`, `promised` and `dropped` are history variables: `promised` holds the
messages whose presence the callers may rely on. `SessionLog` has the same
operations taking effect in one step between call and return;
`ImplementsSessionLog` maps the effect to the write at which readers see it. An
interrupted SetHistory or Compact may bring truncated messages back, which
`SessionLog` allows (`Resurrect`) because the comments of both methods do.

**MessageBus.** A publisher's call is four steps: check the flag, check the
context, then a select that takes any ready case. Close is a compare-and-swap,
the closing of `done`, and a drain loop per channel, one message per step. The
three channels are one function `queue` of the channel's name.

**ChannelManager.** A dispatcher `<<g, l>>` of generation `g` and lane `l` takes a
message from the bus, looks its worker up under the read lock, and offers it to
the worker's queue or sees its context end. A worker or a SendMessage call sends
the pieces of a message one after the other: the limiter, then at most
`MaxRetries + 1` attempts. StopAll holds the lock from the cancellation to its
last wait. The goroutines of a generation live on after it, on the same bus.
`Restart`, `RestartReturns` and `RestartFails` are the gateway's
`restartServices`, `StopAgain` the second StopAll on a manager that a failed
restart left in place. Simplifications: the bus is a FIFO queue without bound; a
message that is split knows its number of chunks; a platform is the log of what
arrived.

**CronService.** `mem[s]` is the store in the memory of service `s`, `disk` the
file. Services `1..Generations` are the gateway's: each Start loads the file into
the next, so that a reload and a restart after a crash are the same action with a
different past. Service 0 is a `nookclaw cron` process. `CheckJobs` is the locked
part of a tick, `BeginJob` and `EndJob` the two locked parts of
`executeJobByID`. Time is counted in ticks, 0 is the nil next run. Cron
expressions behave like "every"; a save fails as a whole, `MaxFaults` times.

**AgentTurns.** `turn[w]` is the turn of the bus's goroutine ("run") and of a
heartbeat or cron job ("side"), with the step it is at; the summarisers are
`summary[s]`. Reading the history, asking the model, saving a result and the
final save are separate steps; each operation on a session is one. A *world*
bounds what the environment may do in one behaviour (who writes, how the model
answers, whether the provider is reloaded), so that the worlds together cover
more than one large bound would allow.

**Adapters.** `ChannelIntake` has one action per adapter over one record of an
event (is the sender listed, is it a group, is the bot mentioned, what does the
text hold, is there a file, can it be fetched); `ChannelSend` has one *plan* per
adapter (which parts go into one call, which calls are tried for it, how errors
are classed), and `ChannelLifecycle` one *life* (the steps of Start and Stop in
order, and what ends each goroutine). The three tables are translated row by row
from the adapters; the actions that run them are shared.

## 3. Runs

| Run | Bounds | Checks |
|---|---|---|
| `store_durable` | 4 messages, 2 interruptions, appends all or nothing | SkipWithinFile, PromisedVisible; refinement ImplementsSessionLog |
| `store_crash_safe_append` | 3 messages, 1 torn append | CrashSafeAppend is violated (finding 1) |
| `bus` | 2 publishers, 2 closers, 2 channels of capacity 1, fair | EachMessageOnce, CloseSound, BusLive |
| `manager_live` | 1 generation, 2 lanes, 4 messages (internal, long, SendMessage, media), queues of 1, 1 retry, fair | PiecesInOrder, ManagerLive |
| `manager_reload` | 2 generations, 2 lanes, 3 messages, no retry | Accounted, QuietAfterStop |
| `manager_reload_delivers` | 2 generations, 1 message, fair | ReloadDelivers is violated (finding 2) |
| `cron_safety` | 2 services with a reload, 1 command, 2 jobs, 2 ticks | JobsSound, RemovedNeverStarts |
| `cron_durable` | 3 services one after the other, 1 failed save, 2 jobs, 3 ticks, fair | FileSound, DueRuns |
| `cron_cli_add` | 1 service, 1 command | AddedSurvives is violated (finding 3) |
| `safety` | `Safety.cfg`, sixteen components | one property of each: PromptSound, CacheSound, SearchSound, ChainSound, CredSound, HeartbeatSound, HistoryInOrder, ShownInOrder, SessionsApart, PicoSound, IntakeSound, DeliverySound, TablesSound, NumbersUnique, NoneLeftTyping, SplitSound |
| `liveness` | `Liveness.cfg`, nine components, fair | one property of each, two of AgentTurns: TurnSound, TurnEnds, TasksReported, MediaSound, McpSound, ControlSound, LinkSound, StreamsSound, NothingSurvives, NativeSound |
| `split_long_header` | texts that begin with a long line behind a fence | SplitAdvances is violated (finding 4) |

A property that is a conjunction (`TurnSound`, `PiecesInOrder`, ...) names parts
that are stated and commented one by one in the module.

Why the bounds are enough to meet the hard cases:

- Store: two interruptions allow one inside the repair of another; four
  messages allow a truncation that keeps some and drops some on both sides of
  what an interrupted operation left.
- Bus: capacity 1 makes a buffer full with one message; two publishers can both
  be between check and select when two Closes race; two channels allow one to
  be drained while the other still receives.
- Manager: with queues of 1 the dispatcher blocks behind a long message while
  another waits on the bus; one retry shows a duplicate; two lanes show the two
  waits of StopAll; two generations share the bus.
- Cron: one one-time and one recurring job; time for both to become due, and for
  the one-time job to pass while nothing runs; three services for a crash during
  the recovery from a crash.
- `AgentTurns`: three turns on two workers and a summariser: a side turn falls
  between any two steps of a user's, and a summary is made from a history that
  grows; the threshold of a summary is 4, the messages it keeps.
- `AgentPrompt`: every history of up to four messages over two call identifiers;
  what the two passes look at is a call, its results and what follows them.
- `ProviderFallback`: two calls over one chain of two candidates, at the instants
  1, 11 and 18000 s: within the standard cooldown of a minute, and after it but
  just before the five hours of a billing refusal end.
- Tables and rings hold two entries, with three identifiers: each forgets.
- `MessageSplit`: the real constants with a limit of 60 and texts of up to five
  pieces of 5 to 40 runes, so that every branch of the loop is taken.
- The other components: two of whatever may race (flows and workers, handlers
  and sends, sockets for one seat, requests of the page), and enough bounded
  events for one to fall into each gap of another.

`CHECK_DEADLOCK FALSE` is used where the system really may stop: everyone has
sent what they have, a bounded clock has run out, the one message or text has
been handled. The store never stops, and its deadlocks are checked.

### Fairness

Weak fairness, always of a step that a goroutine takes when it can run, never of
what a user, a peer or a failure does:

- `MessageBus`: each publisher's call, each consumer's receive, a Close that has
  begun. Nobody has to publish, to close or to cancel.
- `ChannelManager`: dispatchers, workers, SendMessage, the rest of a StopAll or
  restart. A Send returns because the adapters' clients have timeouts; which
  outcome it has is not fair.
- `CronService`: the ticks and both halves of a job. Crashes, reloads and the
  clock are not fair.
- `AgentTurns`: a worker goes on; a model answers or times out.
- `AgentTools`: a subagent's goroutine goes on. `MediaStore`: time passes, the
  cleaner's ticker fires and its deletions go on. `McpManager`: connecting,
  closing and calls return (each has a timeout or fails). `GatewayControl`: a
  request that began goes on, reapers and probers run, the startup window
  passes; a process that is told to end need not end, it is killed after its
  grace. `OneBotLink`, `NativeLink`, `WeComStreams`, `ChannelLifecycle`: each
  goroutine of the adapter, tickers and deadlines; a peer need not answer.

## 4. What the runs show

**Store.** If an append leaves nothing or a whole line, the store is a log: no
acknowledged message is lost, reordered or repeated, and every method does what
its interface says, in one step, whatever was interrupted. A migration that is
interrupted or fails at any step, with either backend in between, never shows a
message twice or before an older one.

**Bus.** Whatever Close races with, each accepted message is in exactly one
place and nothing is accepted late. No publisher stays blocked.

**Manager.** Order per channel, bounded copies and no holes hold with every
outcome of a Send and a stop at any time; StopAll does not deadlock with the
dispatchers that want its lock; across a reload each message has one owner, and
no worker sends after StopAll has returned. A typing indicator always has
somebody who will end it, except for the one that the janitor takes for another.

**Splitting.** For the texts above chunks fit, closed code blocks stay closed,
and no text is lost.

**Adapters.** Only messages of listed senders, meant for the bot, are published
(the exceptions are named in `OnlyInvited`); a message that the manager takes for
sent was shown, and is shown again only for a reason; a message is handled once
while the tables can know it; a stop, also after half a start, leaves nothing
running but the goroutines in `Immortal`; OneBot's link is heard and restored;
native WhatsApp waits for its reconnecting goroutines; WeCom's Send returns.

**Cron.** A one-time job never runs twice, whatever is reloaded, restarted or
overwritten; a removed job does not start; a recurring job never falls out of
the schedule; a due job runs.

**Agent.** Every turn ends. A user of the default agent is left without an
answer only if a message was sent during that very turn. Calls and results stay
paired in sessions that were not compressed by force, and whatever history is
left, the provider accepts the prompt made of it. The prompt shows the tracked
files as they are. A search knows every hidden tool; a subagent that ran is
reported exactly once; initialised MCP means loaded. A provider that refuses for
billing is left alone.

**Launcher.** With one start or restart at a time there is one gateway, the one
the page knows, restarts end, and the page does not show "restarting" for ever.
The log is shown in order, with gaps only where the ring was too small. A login
that is shown as a success has saved its credential.

**Routing.** Sessions and conversations are one to one for every scope.

### Findings (violation runs)

1. `store_crash_safe_append`: a torn line swallows the next acknowledged
   append; the comments of `JSONLStore` promise less damage.
2. `manager_reload_delivers`: after a configuration reload the context of
   dispatchers, workers and channels ends when `restartServices` returns
   (`defer cancel()`), so outbound messages stay on the bus.
3. `cron_cli_add`: a job added on the command line while the gateway runs is
   overwritten at the gateway's next tick.
4. `split_long_header`: a text that begins with a fence whose line is about as
   long as a chunk makes `SplitMessage` loop without end.

### What does not hold

Each of these is stated in its module with the reason in its comment; none is a
run of its own, because what holds instead is checked. TLC finds each with the
constants of the component's run, unless others are given.

| Definition | Why not |
|---|---|
| `JSONLStore!CompactCorrects` | after an interrupted Compact the next one finds skip = 0 and returns at once, contrary to `jsonl.go:434` |
| `JSONLStore!TruncateKeepsLast` | damaged lines count among the last keepLast (`TornWrites = TRUE`) |
| `SessionBackends!HistoryKept` | after a failed migration the old backend reads `key.meta.json` as an empty session, and the next migration overwrites (`Failing = {"history"}`) |
| `MessageBus!CloseLosesNothing` | a publisher past its check may send after the drain; only `nookclaw agent` ever closes its bus |
| `ChannelManager!StopDrains` | a worker may choose the end of its context before its queue is empty |
| `ChannelManager!NeverPanics` | a dispatcher may choose the send on a queue that was closed; a second StopAll closes the queues again |
| `ChannelPresence!NoneLeftReacted` | the undo of an earlier reaction is overwritten |
| `CronService!ListedIsScheduled` | a one-time job whose time passed while no service ran stays enabled without a next run |
| `AgentTurns!CronAnswerSent` | the answer goes to the cron tool, which drops it, although its comment says it is sent |
| `PromptCache!ServedNotes` | the daily notes are in the prompt and not among the tracked files |
| `ProviderFallback!RetryAsks` | the loop retries after five seconds, while every candidate cools for a minute |
| `MediaStore!WorkspaceKept` | send_file stores files of the workspace, which the cleaner deletes |
| `McpManager!SessionsCloseIdle` | a call that passed the closed flag is counted after Close has waited, contrary to `manager.go:487` |
| `Heartbeat!LastUserTold` | the heartbeat's manager keeps the channel that it read when it was made |
| `Credentials!LogoutForgets` | a refresh under way writes the credential back |
| `GatewayControl!OneGateway` | two restarts, or a restart and a start, at once (`OneAtATime = FALSE`) |
| `LogView!ShownFromStart` | the number of the run and its lines are read under two locks (`Capacity = 3, MaxLines = 4, MaxRuns = 2`) |
| `Routing!SessionsApart` | holds for the run's ids, and under `ClearRouting`, which excludes these: ids that differ in case only, an id that identity_links gives to two people or that is another's name, bindings without agents.list |
| `MessageSplit!BlocksClosed` | a fence in the middle of a line, which the loop takes for the first of a block and the header does not repeat as one; `LinedMessages` says that fences begin lines |
| `PicoSockets!WithinLimit` | handlers that passed the check are counted only after the upgrade |
| `QQReplies!PairsUnique` | a Send between the two stores of a handler numbers an answer with the old counter |
| `OneBotLink!LinkClosed` | a dial under way when Stop comes stores its connection afterwards |
| `WeComStreams!AnswerPolled` | the deadline may close the stream between Send's look at the task and its put |

Seen while modelling, and part of the actions: the fallback chain's run function
ignores the candidate's provider (`loop.go:1072`); a tool with a time to live of
1 expires in the round that promoted it; ReloadProviderAndConfig closes the old
provider after 100 ms whoever uses it; two references of one path break each
other in the media store; WhatsApp's bridge never reconnects; DingTalk with
mention_only never answers; a Slack mention yields two events; native WhatsApp
misses a Disconnected while it connects; MaixCam serves a device that was
accepted while it stopped.

## 5. Proofs

Every theorem below holds for every value of the constants that the named
assumption of its module allows; TLC evaluates these assumptions on each run of
the module. None is about more than a lower bound or finiteness, except where it
is said. A theorem is proved from an inductive invariant: the initial states
have it, each action keeps it (one step per action), and it implies what is
claimed. `PROJECT.json` lists the theorems with the property that each states.

### Store (`JSONLStoreProofs`)

Any number of messages and interruptions, any summaries and arguments of
TruncateHistory (`StoreAssumption`).

- `SkipTheorem`: `Spec => [](TypeOK /\ SkipWithinFile)`, torn appends included.
  `SkipWithinFile` alone is not inductive: a metadata write installs an offset
  that was computed when the operation began. `StoreInv` adds that the offset
  which a pending write will install is within the file too, that a pending
  append does not move it, and that between the two writes of SetHistory and
  Compact it is 0, so that the shorter file cannot be overtaken by it.
- `DurabilityTheorem`: if `TornWrites = FALSE`, `Spec => []PromisedVisible`.
  `DurableInv` says that the file has no damaged line, and that what a pending
  operation promises will be visible with the offset and lines it installs. The
  lemma `TruncateKeepsTail` shows that the messages TruncateHistory keeps are
  the last `keepLast`; `DecodingsRange` that reading a file yields all its
  intact lines.
- `StoreImplementsLog`: if `TornWrites = FALSE`, `Spec => ImplementsSessionLog`, the
  refinement. `MethodInv` says which method is under way at which of its writes
  and what it is about to install: only SetSummary writes another summary, only
  TruncateHistory moves the offset forward, and a Compact rewrites the file by
  the history it began with. With it and the two invariants above each write is
  mapped to a step (`RefinedStep`): the append to TakeEffect, the metadata of
  SetSummary and TruncateHistory and the new file of SetHistory and Compact to
  Return, an interruption to Fail, which between the two writes of a rewrite is
  `Resurrect`. What the abstract history is, a CHOOSE among the ways to decode the
  file, is settled by `OneDecoding`: the only way to number c positions in order
  is a shift (`InOrderIsShift`, by a least counterexample in place of an induction).

### Bus (`MessageProofs`)

Any publishers and closers, any list of distinct channels, any capacity from 1
and number of messages (`BusAssumption`). `BusKeepsEachMessageOnce`, `BusCloses`
(whose parts are that `done` is closed once, that nothing is accepted late, and
that Close's drain misses at most one message of each publisher) and
`BusTypeCorrect`, from one invariant `BusInv`:

- `CloseInv`: the index of the drain belongs to the one Close that got past the
  flag, and a drain implies `done` closed, which implies the flag.
- `PlaceInv`: no message is twice in a buffer or in two buffers, and the message
  a publisher is offering has not been accepted. Without it a second send of
  the same message would put it in two places.
- `LateInv`: a publisher that is past the check of the flag offers a message
  from before Close. A late message therefore never reaches the select.
- `MissedInv`: the messages in the buffers that are drained already
  (`Missed`) are of different publishers, none of which is past the check: the
  send that left the message there was its last one.

### Splitting (`MessageProofs`)

Texts of any length, any limits from 1 (`SplitAssumption`).

- `SplitKeepsTheText`: `SplitSpec => [](InkKept /\ ChunksFit)`. `SplitInv`: what the
  chunks and the rest show together is what the text shows, apart from the headers
  and fences that splitting adds. `InkJoined` says that the ink of a concatenation is
  that of its parts, `TrimsKeepInk` that trimming loses none, `LimitsFit` that the
  effective limit and the buffer for a fence stay within the limit. `BlockCuts` is the
  case of a block that is too long for a chunk: where it is cut, and what is put
  behind the one part and before the other.
- `SplitKeepsTheBlocks`: `SplitSpec => []SplitSound`, with the hypothesis
  `LinedMessages` (fences begin lines, limits are 10 or more; the least in the code
  is 100). The run's constants satisfy it, which TLC evaluates (`MCLined`).
  `BlocksInv`: the rest has its fences at the beginning of lines, and if the text is
  closed, the rest and each chunk are. Where no fence reaches over a seam the
  number of fences adds (`ClosedJoined`); no cut that the loop chooses is within a fence
  (`NaturalApart`: a fence over the limit would begin a line whose end is a better
  cut); the scan that looks for an open block finds one just when the number of
  fences is odd (`ScanCounts`, with `FencesDoNotTouch`); and a repeated header has
  one fence (`HeaderFence`). The branch that cuts at a fence with nothing before it
  is not reached with such texts.

### Channel manager (`ChannelManagerProofs`)

Any channels, generations, messages, retries and sizes of queues
(`ManagerAssumption`). `ManagerTypeCorrect`, `ManagerOrder`, `ManagerQuiet` and
`ManagerAccounted`, from `ManagerInv`:

- `LifeInv`: whose goroutines run, and which queues are closed, at each point of
  StopAll. That no worker runs once StopAll has returned follows from the two
  waits, each of which comes after the queues it waits for were closed.
- `RouteInv`: a message is where the lane and the channel it is for allow.
- `OrderInv`: what a platform has seen comes before what its worker sends, that
  before what is queued, that before what the dispatcher holds, that before what
  is on the bus. Each conjunct is needed by the one before it: a message moves
  from one of these places to the next only.
- `DirectInv`, `DoneInv`, `CopyInv`: the same for SendMessage; what comes before
  the piece that is sent is done or given up; a piece has arrived at most once
  for each attempt that failed, and once more.
- `UniqueInv`, `KeptInv`: a message of the bus has one owner, and until a context
  ends it has one or is settled.

### Cron (`CronServiceProofs`)

Any jobs, generations, clock, failed saves and commands (`CronAssumption`).
`CronTypeCorrect`, `CronJobsSound` and the action property
`CronRemovedNeverStarts` hold with reloads and commands, from `LoopInv`. Its
parts: an id that was not generated is nowhere (`MadeInv`); the copies of a
one-time job in memories and file agree on its time (`TimeInv`), and once one is
collected or has fired that time has passed in every copy (`LateInv`), so no
copy read later is due; a one-time job that has fired is due nowhere, and one
that is collected is due nowhere else (`FiredInv`); a copy that a job under way
may still write back concerns only the service that has it (`StaleInv`); and a
removed job is not in that service again (`RemovedInv`).

`CronFileSound` has the hypotheses `Reload = FALSE` and `Commands = 0`, those of
the run: with either, the file is written from two memories and `AddedSurvives`
is false, which is finding 3. Crashes, restarts and failed saves are in it.

### Agent loop (`AgentTurnsProofs`)

Any agents and worlds, any thresholds and numbers of turns (`TurnAssumption`).
`TurnTypeCorrect`, and one theorem per part of `TurnSound` (`TurnSilence`,
`TurnResults`, `TurnRequest`, `TurnLoss`), joined in `TurnsKeepSound`:

- `HistoryInv`: turns that run have different ids (`DistinctInv`); each message
  of a history that was not compressed by force is of a turn that has begun and
  of an iteration it has reached (`FineInv`); each call has its results behind it
  as far as its turn has saved them (`CallInv`).
- `RequestInv`: a turn whose session nobody else has touched finds its request at
  the end of the history.
- `SilentInv`: the message tool's flag is set only by a message that the turn
  that answers has heard of.
- `LossInv`: what a summariser has read covers the history up to the messages
  it keeps and those that were added meanwhile, in the history itself and in
  what a turn is about to put back.

### Services around the agent, and the launcher (`ServiceProofs`)

- `CacheFresh`: a cached prompt that the check of the times lets through shows
  every tracked file that exists as it is. `ShownInv`: for each such
  file the cache, and what a build has read so far, shows it as it is or has a
  baseline that tells of the change; `TimesInv`: no baseline is later than the
  last write, so the next write is told (`CacheAssumption`).
- `SearchKnows`: a search knows all hidden tools, what was offered can be
  called, and what was promoted is offered in the next round. `IndexInv`: a current index has every hidden
  tool; `GoodRound`: what a turn holds at each step of its search is
  no older than what it needs; `BuilderInv`: one builds at a time, from a
  snapshot that is good for those who wait (`ToolsAssumption`).
- `LoginSound`: a flow that is shown as a success has saved its credential
  (`CredInv`: a worker past the file has written it; a state that can still be
  redeemed belongs to a pending flow). No assumption.
- `MigrationKeepsOrder`: a history never has a message twice or out of order, with
  both backends, failures and interruptions of the migration at any step
  (`BackendsAssumption`).
- `HeartbeatTargets`: neither the file nor a manager's copy ever names an internal
  channel, and a service that was stopped begins no heartbeat, which is an action
  property (`HeartbeatAssumption`).
- `InitialisedIsLoaded`: whoever goes on with MCP initialised finds no server on
  its way and the tools of each open one offered (first part of `McpSound`).
  `McpInv`: nothing is connected before the first who needs it, and what is open
  belongs to the manager. No assumption.
- `ResolvedHasFile`: a download that the store resolves has its file (first part of
  `MediaSound`). `MediaInv`: a download belongs to one entry at most, and one that a
  clean-up will delete to none; files of the workspace have no such rule, which
  is why `WorkspaceKept` does not hold (`MediaAssumption`).
- `CooldownsCount`: the whole of `ChainSound`. The errors by which a cooldown grows are
  the failures of each reason since the provider last answered, after any order of
  failures, answers and days (`CountsAgree`, kept by each step because it changes the
  entry and the history in the same place), and no call goes to a provider for five
  hours after it refused for billing, until a call that was on its way is answered
  (the action property that `BillingIsRespected` states alone). `BilledInv`: the end of
  the disabling is five hours after the refusal at least, which `CooldownBounds` shows
  of each exponent (`ChainAssumption`).
- `GatewayIsKnown`: `OneGateway` and `RunningKnown` with the hypothesis
  `OneAtATime = TRUE`, that of the run (first part of `ControlSound`). `RestartInv`: the one
  restart under way replaces the process that the launcher knows, or knew until
  it ended, and begins a new one when that is gone. Without the hypothesis
  `OneGateway` is false, see above.

### Adapters (`AdapterProofs`)

- `SeatsKept`: Pico's counter is the number of read loops, and no connection is
  left without one who removes it (`PicoAssumption` is not even needed).
- `RepliesNumbered`: no two answers carry the same number of the same counter
  (`RepliesInv`: a number is within its counter, and what was posted is what a
  finished Send had read).
- `TypingEnds`: an indicator that is on has somebody in charge of ending it,
  or the janitor swept it. `ChargedInv` does not count the janitor: what it has
  seen is recorded still, or another has it by now.
- `OnlyInvitedHeard`: whom each adapter listens to, one step per adapter.
- `TablesRemember`: the ring, the dated map and the room cache keep what they
  promise. `RingInv`: the slots are the last messages let through, each at its
  place; `DedupInv`: every entry is in the log (`LogInv`, `KnownLogged`), and the
  young ones are known (`YoungKnown`). That the entry which goes when the map is
  full is not among the last `Size` ones is a pigeonhole argument
  (`OldestPassed`) with `FiniteSetTheorems`.
- `LinkIsHeard`: until Stop, OneBot's connection has a listener or is about to get
  one, and no socket is open that the channel gave up (first part of
  `LinkSound`). `DialInv`: the dialler holds a connection from the dial to the start
  of its listener, and nobody else puts one into the field (`LinkAssumption`).
- `StopAwaitsReconnects`: `NativeSound`, an invariant and an action property: the store is
  open while a goroutine of native WhatsApp connects, unless Stop ran out of
  time, and once Stop waits nobody is added to what it waits for. `NativeInv`: who
  connects is counted, and who stops has said so. No assumption.
- `StreamsNotStranded`: a WeCom task that is out of its queue is cancelled and
  found by no poll (first part of `StreamsSound`; `StreamsAssumption`).

### Sending, the log page, routing and prompts (`EdgeProofs`)

- `SentMeansShown`: for any number of parts and retries and each adapter's plan, a
  message that the manager takes for sent was shown, and no part is shown more
  often than the calls that were cut off and the retries explain. `SendInv`:
  what was shown of a part and what may still arrive is bounded by the calls cut
  off and the attempts that failed after it (`CountInv`); the parts before the
  next call are shown (`SeenInv`). The lemmas on plans (`MineSound`) say
  that every part is in a call and no part is in two.
- `LogPageInOrder`: the page's lines are of one run and in order, without a gap
  unless the ring was too small. `RingInv` has each line at its place modulo
  the capacity, `AnswerInv` an answer without gaps, `AskInv` that a request the
  page will not drop asks for what comes after its lines.

- `NobodySharesASession`: for any configurations and messages that `ClearRouting`
  allows, two messages have the same session key just when they go to the same
  agent and belong to the same conversation. The hypothesis says that agents are
  listed where bindings name them, that ids differ in more than case, that one id is
  one person's, that no chat's id is a person's name, and that direct chats have an id
  of their platform; the run's constants satisfy it, which TLC evaluates (`MCClear`).
  `RoutedInv`: what was routed has the key and the agent of its message and of a
  configuration. `KeysTellApart` takes the scopes one by one; `LinkedPersons` and
  `SamePerson` say that the person found for an id is the only one it is linked to.
- `PromptsAreSound`: for histories of any length, what sanitizing leaves is accepted
  by the providers (no answer without its call, no call without its answers), an
  accepted history is left as it is, requests and plain answers stay in their order, and
  sanitizing twice is sanitizing once; a split loses no message and is at a user's one
  where there is any; transcriptions go to the recordings they are of. The passes
  are described by the places they keep (`FirstPassKeeps`, `SecondPassKeeps`), and a
  set of places lists them in one way (`PlacesEnumerate`, `EnumerationUnique`), so that
  a fact about the prompt becomes one about places (`PlacesToPrompt`). `AcceptedKeepsAll`
  is for the second part, `SplitIsAtUser` and `VoicesAreAligned` are the last two.

### What proving changed in the models

Attempts that failed showed that `SendMessageFirst` spoke of messages that had not
been offered, that the loss of a summary depends on what was added while it was
made, and that `SearchKnowsAll` and `OfferedCallable` need to name what was known
when the search began (the history variables `known` and `due`). `ChannelSend`
now counts how often a part is shown. Constants that had no assumption got one.
`MediaAssumption` says that downloads are not files of the workspace (they go to
the temporary directory), `ChainAssumption` that instants are numbers. The queue
of `WeComStreams` is a set of numbered tasks, whose order is that of the numbers,
because a filtered sequence is defined by recursion.
For the same reason the passes of `AgentPrompt` are sets of kept places, and the
loops there, and in `MessageSplit` the ink of a text and the scan for an open block,
are recursive functions. `SplitSound` has three named parts, of which the last has to
be told where fences stand (`LinedMessages`); `Routing` names what its property needs
of a configuration (`ClearRouting`).

### Only model-checked

- Liveness (`BusLive`, `ManagerLive`, `DueRuns`, `TurnEnds` and the temporal parts
  of the liveness run's properties): fairness and ENABLED are out of the
  prover's reach.
- What is false in general and true of the run: `SessionsApart` without `ClearRouting`,
  `BlocksClosed` without `LinedMessages`. No theorem claims these.
- The temporal parts of properties whose safety part is proved (`McpSound`,
  `MediaSound`, `LinkSound`, `StreamsSound`, `ControlSound`); `NothingSurvives` and
  `TasksReported`, which are about what happens in the end.

The library's induction theorems are out of reach. A fact about all values of a
recursive function is proved from a least counterexample (`LeastExists`,
from the finiteness of an interval) wherever one is needed.

## 6. Not modelled

The components marked `not_modelled` in `PROJECT.json`, each with its reason
there: tools and clients that translate or do sequential I/O, configuration,
onboarding, user interfaces. Of modelled components: SendToChannel,
RegisterChannel and UnregisterChannel, which only tests call; two session keys
whose file names collide; lines above the scanner's limit; the copy in
`SessionManager.Save` that may replace a newer file (`session/manager.go:194`);
the watcher of the configuration, which forgets a change when its channel is full
(`gateway/helpers.go:565`); slash commands other than `/clear`; wall-clock jumps;
the texts and formats of messages; what the libraries of the platforms do on
their own.

## 7. Plan

Every invariant and every action property without a temporal part that a run checks
is stated by a theorem. What is left would be more than the runs ask:

1. `MessageSplit`: that the loop ends when no line behind a fence is as long as a chunk,
   the exception of finding 4.
2. `AgentTurns` against `SessionLog`: the operations of the store that a turn uses as
   one step, replaced by the store itself.
