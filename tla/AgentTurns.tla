----------------------------- MODULE AgentTurns -----------------------------
(***************************************************************************)
(* pkg/agent/loop.go: the turns of the agents.  One goroutine ("run")      *)
(* takes messages from the bus and answers them one at a time; heartbeats  *)
(* and cron jobs run turns of their own ("side") at the same time, and     *)
(* the summarisers of long sessions work in the background.  They share    *)
(* the sessions, and the message tool of each agent with its one flag.     *)
(*                                                                         *)
(* A turn saves the user's message, calls the model until it answers       *)
(* without tool calls, and saves the answer.  The model may answer, ask    *)
(* for tools, time out, refuse the prompt as too long, or fail.            *)
(***************************************************************************)
EXTENDS Integers, Sequences, FiniteSets

CONSTANTS Agents,        \* the agents of the configuration
          DefaultAgent,  \* the agent of heartbeats, cron jobs and system messages
          SummarizeAt,   \* SummarizeMessageThreshold
          MaxTurns,      \* bound: turns of all kinds
          Worlds         \* what the environment does, see below

\* A world bounds what may happen in one behaviour: how many messages users write and
\* to which agents, how many heartbeats and cron jobs run, how often the provider is
\* reloaded, what the model may do, the rounds of tool calls it may ask for, and
\* agents.defaults.max_tool_iterations.
Worldly(world) ==
    /\ {world.users, world.sides, world.reloads} \subseteq Nat
    /\ world.kinds \subseteq {"heartbeat", "cron"}
    /\ world.writes \subseteq {"user", "command"} \X Agents
    /\ world.iterations \in Nat \ {0}
    /\ world.model \subseteq {"answer", "tools", "timeout", "fail", "long"}
    /\ world.rounds \subseteq Seq({"message", "async", "plain"}) \ {<<>>}

ASSUME TurnAssumption ==
    /\ DefaultAgent \in Agents /\ \A world \in Worlds : Worldly(world)
    /\ SummarizeAt \in Nat /\ MaxTurns \in Nat

Worker     == {"run", "side"}
Sessions   == Agents \cup {"heartbeat"}  \* the main session of each agent, and the heartbeat's
Keep       == 4                          \* messages that a summary leaves in the history
MaxRetries == 2

VARIABLES
    world,     \* the element of Worlds that this behaviour lives in
    inbox,     \* the inbound messages on the bus
    outbox,    \* what was published to users: <<turn, why>>
    hist,      \* hist[s]: the messages of session s
    turn,      \* turn[w]: the turn that w runs
    sent,      \* sent[a]: sentInRound of the message tool that agent a has now
    gen,       \* how often provider and configuration were reloaded
    closed,    \* the generations whose provider was closed
    summary,   \* summary[s]: what the summariser of s works on
    tasks,     \* asynchronous tool calls at work, by turn
    inbound,   \* how many messages users have written
    begun,     \* how many turns have begun
    beats,     \* how many of them were heartbeats and cron jobs
    ended,     \* what became of the turns that are over
    squeezed,  \* sessions that forced compression or /clear has rewritten
    crowded    \* turns in whose session another turn or a summariser was active

bus        == <<inbox, outbox>>
agentState == <<sent, gen, closed>>
background == <<summary, tasks>>
counts     == <<world, inbound, begun, beats>>
ghosts     == <<ended, squeezed, crowded>>
turnVars   == <<bus, hist, turn, agentState, background, counts, ghosts>>

\* What a session stores: a request, an answer, an answer with tool calls, a
\* result; `turn' is the turn that saved it, `at' the iteration and the call.
Message(role, id, at) == [role |-> role, turn |-> id, at |-> at]

Idle == [pc |-> "idle", kind |-> "none", agent |-> DefaultAgent, id |-> 0, gen |-> 0,
         iter |-> 0, retry |-> 0, calls |-> <<>>, ran |-> {}, saved |-> 0,
         asked |-> TRUE, read |-> <<>>, old |-> FALSE, heard |-> FALSE]
NoSummary == [on |-> FALSE, read |-> <<>>, added |-> 0, missed |-> 0]

\* Heartbeats have a session of their own, all other turns that of their agent.
SessionOf(t) == IF t.kind = "heartbeat" THEN "heartbeat" ELSE t.agent
Active(s)    == {w \in Worker : turn[w].pc # "idle" /\ SessionOf(turn[w]) = s}
IdsOf(W)     == {turn[w].id : w \in W}

TurnInit ==
    /\ world \in Worlds
    /\ inbox = <<>> /\ outbox = {} /\ hist = [s \in Sessions |-> <<>>]
    /\ turn = [w \in Worker |-> Idle] /\ sent = [a \in Agents |-> FALSE]
    /\ gen = 0 /\ closed = {} /\ summary = [s \in Sessions |-> NoSummary]
    /\ tasks = {} /\ inbound = 0 /\ begun = 0 /\ beats = 0
    /\ ended = {} /\ squeezed = {} /\ crowded = {}

\* AddMessage and AddFullMessage; a summariser at work on the session misses it.
Save(s, msg) ==
    /\ hist' = [hist EXCEPT ![s] = Append(@, msg)]
    /\ summary' = IF summary[s].on THEN [summary EXCEPT ![s].added = @ + 1] ELSE summary

\* runAgentLoop up to the model: the prompt is built from the history and the
\* request, and the request is saved.
Start(w, kind, agent) ==
    LET id == begun + 1
        t  == [Idle EXCEPT !.pc = "model", !.kind = kind, !.agent = agent, !.id = id,
                           !.gen = gen, !.iter = 1]
        s  == SessionOf(t)
    IN  /\ turn' = [turn EXCEPT ![w] = t]
        /\ Save(s, Message("user", id, <<0, 0>>))
        /\ begun' = id
        /\ crowded' = IF Active(s) # {} \/ summary[s].on
                      THEN crowded \cup IdsOf(Active(s)) \cup {id} ELSE crowded

\* A user writes to one of the agents; the message may be the command /clear.
Arrive ==
    /\ inbound < world.users /\ inbound' = inbound + 1
    /\ \E m \in world.writes : inbox' = Append(inbox, [kind |-> m[1], agent |-> m[2]])
    /\ UNCHANGED <<outbox, hist, turn, agentState, background, world, begun, beats, ghosts>>

\* processMessage for a user's message: the flag of the routed agent is reset.
ResetSent(a) == [sent EXCEPT ![a] = FALSE]
Take ==
    /\ turn["run"].pc = "idle" /\ inbox # <<>> /\ Head(inbox).kind = "user"
    /\ inbox' = Tail(inbox) /\ sent' = ResetSent(Head(inbox).agent)
    /\ Start("run", "user", Head(inbox).agent)
    /\ UNCHANGED <<outbox, gen, closed, tasks, world, inbound, beats, ended, squeezed>>

\* handleCommand: /clear empties the session, the reply is the response.
Command ==
    LET a == Head(inbox).agent
        id == begun + 1
    IN  /\ turn["run"].pc = "idle" /\ inbox # <<>> /\ Head(inbox).kind = "command"
        /\ inbox' = Tail(inbox) /\ sent' = ResetSent(a) /\ begun' = id
        /\ turn' = [turn EXCEPT !["run"] = [Idle EXCEPT !.pc = "respond", !.kind = "command",
                                            !.agent = a, !.id = id, !.gen = gen]]
        /\ hist' = [hist EXCEPT ![a] = <<>>] /\ squeezed' = squeezed \cup {a}
        /\ crowded' = crowded \cup IdsOf(Active(a))
        /\ UNCHANGED <<outbox, gen, closed, background, world, inbound, beats, ended>>

\* processSystemMessage: the default agent answers, and no flag is reset.
TakeSystem ==
    /\ turn["run"].pc = "idle" /\ inbox # <<>> /\ Head(inbox).kind = "system"
    /\ inbox' = Tail(inbox)
    /\ Start("run", "system", DefaultAgent)
    /\ UNCHANGED <<outbox, agentState, tasks, world, inbound, beats, ended, squeezed>>

\* ProcessHeartbeat, and ProcessDirectWithChannel for a cron job: its session key
\* has no agent prefix, so that resolveScopeKey takes the route's session.
Side(kind) ==
    /\ turn["side"].pc = "idle" /\ beats < world.sides /\ beats' = beats + 1
    /\ Start("side", kind, DefaultAgent)
    /\ sent' = IF kind = "cron" THEN ResetSent(DefaultAgent) ELSE sent
    /\ UNCHANGED <<bus, gen, closed, tasks, world, inbound, ended, squeezed>>

Open(w) == turn[w].gen \notin closed    \* the provider of the turn was not closed

May(w, outcome) == turn[w].pc = "model" /\ outcome \in world.model

\* The model answers; an empty answer becomes the default response.
Answer(w) ==
    /\ May(w, "answer") /\ Open(w)
    /\ turn' = [turn EXCEPT ![w].pc = "answer"]
    /\ UNCHANGED <<bus, hist, agentState, background, counts, ghosts>>

\* The model asks for tools: the calls are saved before they run.
AskTools(w) ==
    /\ May(w, "tools") /\ Open(w)
    /\ \E calls \in world.rounds :
           turn' = [turn EXCEPT ![w].pc = "tools", ![w].calls = calls]
    /\ Save(SessionOf(turn[w]), Message("calls", turn[w].id, <<turn[w].iter, Len(turn'[w].calls)>>))
    /\ UNCHANGED <<bus, agentState, tasks, counts, ghosts>>

\* retries that are not counted
TimeOut_Uncounted(w) ==
    /\ May(w, "timeout")
    /\ turn' = IF turn[w].retry < MaxRetries THEN [turn EXCEPT ![w].retry = 1 - @]
                                             ELSE [turn EXCEPT ![w].pc = "failed"]
    /\ UNCHANGED <<bus, hist, agentState, background, counts, ghosts>>
\* A timeout is retried after a pause, any other error fails the turn.
TimeOut(w) ==
    /\ May(w, "timeout")
    /\ turn' = IF turn[w].retry < MaxRetries THEN [turn EXCEPT ![w].retry = @ + 1]
                                             ELSE [turn EXCEPT ![w].pc = "failed"]
    /\ UNCHANGED <<bus, hist, agentState, background, counts, ghosts>>

Fail(w) ==
    /\ turn[w].pc = "model" /\ ("fail" \in world.model \/ ~Open(w))
    /\ turn' = [turn EXCEPT ![w].pc = "failed"]
    /\ UNCHANGED <<bus, hist, agentState, background, counts, ghosts>>

\* The prompt is too long: a notice, the first time, and forceCompression, which
\* reads the history here and writes it in Compress.
TooLong(w) ==
    /\ May(w, "long") /\ Open(w) /\ turn[w].retry < MaxRetries
    /\ turn' = [turn EXCEPT ![w].pc = "compress", ![w].read = hist[SessionOf(turn[w])]]
    /\ outbox' = IF turn[w].retry = 0 THEN outbox \cup {<<turn[w].id, "notice">>} ELSE outbox
    /\ UNCHANGED <<inbox, hist, agentState, background, counts, ghosts>>

\* The first message, the younger half of those between, and the last one.
Compressed(h) ==
    LET middle == SubSeq(h, 2, Len(h) - 1)
    IN  <<h[1]>> \o SubSeq(middle, Len(middle) \div 2 + 1, Len(middle)) \o <<h[Len(h)]>>

\* SetHistory with what was read, whatever was saved since; then the prompt is
\* built again, from the history alone.  What is put back behind a summariser that
\* began after the reading is new to it.
Compress(w) ==
    LET s   == SessionOf(turn[w])
        cut == Len(turn[w].read) > 4
        now == IF cut THEN Compressed(turn[w].read) ELSE hist[s]
    IN  /\ turn[w].pc = "compress"
        /\ hist' = [hist EXCEPT ![s] = now]
        /\ summary' = IF cut /\ turn[w].old /\ summary[s].on
                      THEN [summary EXCEPT ![s].added = @ + Len(now)] ELSE summary
        /\ turn' = [turn EXCEPT ![w].pc = "model", ![w].read = <<>>, ![w].old = FALSE, ![w].retry = @ + 1,
               ![w].asked = \E i \in DOMAIN now : now[i] = Message("user", turn[w].id, <<0, 0>>)]
        /\ squeezed' = IF cut THEN squeezed \cup {s} ELSE squeezed
        /\ UNCHANGED <<bus, agentState, tasks, counts, ended, crowded>>

\* The calls of a round run in parallel.  The message tool sets the flag of the
\* tool it is: after a reload that of the old registry, which nobody reads again.
RunTool(w) ==
    /\ turn[w].pc = "tools"
    /\ \E i \in DOMAIN turn[w].calls \ turn[w].ran :
        LET sends == turn[w].calls[i] = "message" IN
        /\ turn' = [v \in Worker |-> [turn[v] EXCEPT
                        !.ran = IF v = w THEN @ \cup {i} ELSE @,
                        !.heard = @ \/ (sends /\ turn[w].agent = DefaultAgent)]]
        /\ outbox' = IF sends THEN outbox \cup {<<turn[w].id, "tool">>} ELSE outbox
        /\ sent' = IF sends /\ turn[w].gen = gen THEN [sent EXCEPT ![turn[w].agent] = TRUE] ELSE sent
        /\ tasks' = IF turn[w].calls[i] = "async" THEN tasks \cup {turn[w].id} ELSE tasks
    /\ UNCHANGED <<inbox, hist, gen, closed, summary, counts, ghosts>>

\* a turn that saves one result of several
SaveResult_OnlyFirst(w) ==
    LET t == turn[w] IN
    /\ t.pc = "tools" /\ t.ran # {} /\ t.saved < Len(t.calls)
    /\ turn' = [turn EXCEPT ![w].saved = Len(t.calls), ![w].ran = DOMAIN t.calls]
    /\ Save(SessionOf(t), Message("tool", t.id, <<t.iter, t.saved + 1>>))
    /\ UNCHANGED <<bus, agentState, tasks, counts, ghosts>>
\* All have run: the results are saved one by one in the order of the calls.
SaveResult(w) ==
    LET t == turn[w] IN
    /\ t.pc = "tools" /\ t.ran = DOMAIN t.calls /\ t.saved < Len(t.calls)
    /\ turn' = [turn EXCEPT ![w].saved = @ + 1]
    /\ Save(SessionOf(t), Message("tool", t.id, <<t.iter, t.saved + 1>>))
    /\ UNCHANGED <<bus, agentState, tasks, counts, ghosts>>


\* The next iteration, or after the last one the default response.
Iterate(w) ==
    LET t == turn[w] IN
    /\ t.pc = "tools" /\ t.saved = Len(t.calls)
    /\ turn' = [turn EXCEPT ![w].calls = <<>>, ![w].ran = {}, ![w].saved = 0, ![w].retry = 0,
                   ![w].pc = IF t.iter = world.iterations THEN "answer" ELSE "model",
                   ![w].iter = IF t.iter = world.iterations THEN t.iter ELSE t.iter + 1]
    /\ UNCHANGED <<bus, hist, agentState, background, counts, ghosts>>

\* maybeSummarize: a long history starts a summariser, unless one works on the
\* session already; heartbeats and system messages do not summarise.
Summarizes(t, h) ==
    t.kind \in {"user", "cron"} /\ Len(h) > SummarizeAt /\ ~summary[SessionOf(t)].on

\* The answer is saved.  `old' marks what another turn has read of the session before
\* the summariser that begins here.
Finish(w) ==
    LET t == turn[w]
        s == SessionOf(t)
        h == Append(hist[s], Message("assistant", t.id, <<0, 0>>))
        begins == Summarizes(t, h)
    IN  /\ t.pc = "answer"
        /\ turn' = [v \in Worker |-> [turn[v] EXCEPT
                        !.pc = IF v = w THEN "respond" ELSE @,
                        !.old = IF begins /\ v \in Active(s) /\ turn[v].pc = "compress" THEN TRUE ELSE @]]
        /\ hist' = [hist EXCEPT ![s] = h]
        /\ summary' = IF begins THEN [summary EXCEPT ![s] = [NoSummary EXCEPT !.on = TRUE, !.read = h]]
                      ELSE IF summary[s].on THEN [summary EXCEPT ![s].added = @ + 1] ELSE summary
        /\ crowded' = IF begins THEN crowded \cup IdsOf(Active(s) \ {w}) ELSE crowded
        /\ UNCHANGED <<bus, agentState, tasks, counts, ended, squeezed>>

\* The turn is over.  Run publishes the answer (or the error) of a user's turn,
\* unless the flag of the default agent's message tool is set.  A system turn has
\* published its answer itself, to the channel the task came from; what Run
\* publishes then goes to the channel "system", which nobody serves.  The answer
\* to a heartbeat or a cron job is returned, and ExecuteJob drops it.
Respond(w) ==
    LET t == turn[w]
        said == \/ t.kind \in {"user", "command"} /\ ~sent[DefaultAgent]
                \/ t.kind = "system" /\ t.pc = "respond"
    IN  /\ t.pc \in {"respond", "failed"}
        /\ turn' = [turn EXCEPT ![w] = Idle]
        /\ outbox' = IF said THEN outbox \cup {<<t.id, "answer">>} ELSE outbox
        /\ ended' = ended \cup {[turn |-> t.id, kind |-> t.kind, agent |-> t.agent,
                                 said |-> said, heard |-> t.heard]}
        /\ UNCHANGED <<inbox, hist, agentState, background, counts, squeezed, crowded>>

\* The callback of an asynchronous tool: its result for the user is published,
\* the one for the model comes back as a system message.  Both give up after five
\* seconds.
AsyncDone(id) ==
    /\ id \in tasks /\ tasks' = tasks \ {id}
    /\ outbox' \in {outbox, outbox \cup {<<id, "result">>}}
    /\ \/ /\ begun + Len(inbox) < MaxTurns
          /\ inbox' = Append(inbox, [kind |-> "system", agent |-> DefaultAgent])
       \/ UNCHANGED inbox
    /\ UNCHANGED <<hist, turn, agentState, summary, counts, ghosts>>

\* summarizeSession after the model's work: the summary covers what was read but
\* its last four messages; then the history is cut to the last four it has now.
\* `missed' counts the messages cut that the summary does not cover.
Summarized(s) ==
    LET n == Len(hist[s]) IN
    /\ summary[s].on
    /\ \/ /\ Len(summary[s].read) > Keep
          /\ hist' = [hist EXCEPT ![s] = IF n > Keep THEN SubSeq(@, n - Keep + 1, n) ELSE @]
          /\ summary' = [summary EXCEPT ![s] = [NoSummary EXCEPT !.missed =
                 Cardinality({i \in 1..(n - Keep) :
                     ~\E j \in 1..(Len(summary[s].read) - Keep) : summary[s].read[j] = hist[s][i]})
                 - summary[s].added]]
       \/ /\ summary' = [summary EXCEPT ![s] = NoSummary]  \* too short, or nothing to say
          /\ UNCHANGED hist
    /\ crowded' = crowded \cup IdsOf(Active(s))
    /\ UNCHANGED <<bus, turn, agentState, tasks, counts, ended, squeezed>>

\* ReloadProviderAndConfig: a new registry with message tools of its own; the old
\* provider is closed 100 ms later, whoever uses it.
ReloadConfig ==
    /\ gen < world.reloads /\ gen' = gen + 1
    /\ sent' = [a \in Agents |-> FALSE]
    /\ UNCHANGED <<bus, hist, turn, closed, background, counts, ghosts>>
CloseProvider ==
    /\ \E g \in 0..(gen - 1) \ closed : closed' = closed \cup {g}
    /\ UNCHANGED <<bus, hist, turn, sent, gen, background, counts, ghosts>>

Advance(w) == \/ Answer(w) \/ AskTools(w) \/ TimeOut(w) \/ Fail(w) \/ TooLong(w) \/ Compress(w)
              \/ RunTool(w) \/ SaveResult(w) \/ Iterate(w) \/ Finish(w) \/ Respond(w)

TurnNext ==
    \/ Arrive \/ Take \/ Command \/ TakeSystem
    \/ \E kind \in world.kinds : Side(kind)
    \/ \E w \in Worker : Advance(w)
    \/ \E id \in tasks : AsyncDone(id)
    \/ \E s \in Sessions : Summarized(s)
    \/ ReloadConfig \/ CloseProvider
-----------------------------------------------------------------------------
Messages == [role : {"user", "assistant", "calls", "tool"}, turn : Nat, at : Nat \X Nat]

\* The variables keep their types; the counters respect their bounds.
TurnTypeOK ==
    /\ \A i \in DOMAIN inbox : inbox[i].kind \in {"user", "command", "system"}
    /\ hist \in [Sessions -> Seq(Messages)] /\ sent \in [Agents -> BOOLEAN]
    /\ gen \in 0..world.reloads /\ closed \subseteq 0..(gen - 1)
    /\ \A w \in Worker : /\ turn[w].retry \in 0..MaxRetries /\ turn[w].iter \in 0..world.iterations
                         /\ turn[w].saved \in 0..Len(turn[w].calls)
    /\ \A s \in Sessions : summary[s].on \in BOOLEAN /\ summary[s].missed \in Int
    /\ tasks \cup crowded \subseteq 1..begun

\* A user of the default agent is left without an answer only if a message tool
\* has sent something during that very turn: the flag of an earlier turn cannot
\* silence a later one (processMessage resets it, loop.go:713).
SilentOnlyIfSent ==
    \A e \in ended : (e.kind \in {"user", "command"} /\ e.agent = DefaultAgent /\ ~e.said) => e.heard

\* In a session that was never rewritten by forced compression or /clear, the calls
\* of a turn that is over have all their results, behind them and in the order of
\* the calls, although other turns save to the same session in between and
\* summaries cut it (loop.go:1252-1387).
CallsAnswered ==
    \A s \in Sessions \ squeezed : \A i \in DOMAIN hist[s] :
        (hist[s][i].role = "calls" /\ hist[s][i].turn \notin IdsOf(Active(s))) =>
            LET iter == hist[s][i].at[1]
                place(n) == {j \in DOMAIN hist[s] :
                                hist[s][j] = Message("tool", hist[s][i].turn, <<iter, n>>)}
            IN  \A n \in 1..hist[s][i].at[2] :
                    /\ \E j \in place(n) : i < j
                    /\ n > 1 => \A j \in place(n - 1), k \in place(n) : j < k

\* A summary loses at most as many messages as were saved while it was made: what
\* forced compression puts back of an older history counts among them.
SummaryLossBounded == \A s \in Sessions : summary[s].missed <= 0

\* On the first iteration of a turn that has its session to itself the prompt
\* holds the request, also after forced compression (loop.go:1461).
RequestKept ==
    \A w \in Worker : (turn[w].pc = "model" /\ turn[w].iter = 1 /\ turn[w].id \notin crowded)
                      => turn[w].asked

\* What a turn may do to a conversation, whatever turns, summaries and reloads cross
\* it: all of the above together (processMessage, runAgentLoop, summarizeSession).
TurnSound == TurnTypeOK /\ SilentOnlyIfSent /\ CallsAnswered /\ SummaryLossBounded /\ RequestKept

\* Every turn ends, however often the model fails.
TurnEnds == \A w \in Worker : turn[w].pc # "idle" ~> turn[w].pc = "idle"

\* "Response is automatically sent via MessageBus by AgentLoop" (pkg/tools/cron.go:344).
\* (Does not hold: the answer goes to the cron tool, which drops it.)
CronAnswerSent == \A e \in ended : e.kind = "cron" => <<e.turn, "answer">> \in outbox

TurnSpec == TurnInit /\ [][TurnNext]_turnVars
\* a worker goes on: the model, the tools and the locks answer or time out
TurnFairness == \A w \in Worker : WF_turnVars(Advance(w))
LiveTurns == TurnSpec /\ TurnFairness
=============================================================================
