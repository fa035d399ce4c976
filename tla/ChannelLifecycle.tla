-------------------------- MODULE ChannelLifecycle --------------------------
(***************************************************************************)
(* Start and Stop of the adapters under pkg/channels: the steps of each in *)
(* their order, the goroutines that Start leaves running, and what ends    *)
(* each of them.  The manager starts a channel, goes on without it when    *)
(* Start fails, and stops every channel in the end, also one whose Start   *)
(* failed.  OneBot, Pico and native WhatsApp are modules of their own.     *)
(*                                                                         *)
(* Steps of Start: "ctx" makes the context of the channel; "call" asks the *)
(* platform and does not mind an error; "try" returns the error, and       *)
(* "try_or_cancel" cancels the context first; "running" sets the flag; any *)
(* other step starts the goroutine of that name.  Steps of Stop: "idle"    *)
(* clears the flag, any other is an event that goroutines wait for.        *)
(***************************************************************************)
EXTENDS Integers, Sequences

VARIABLES kind,      \* the life of one adapter, see Lives
          nextStep,  \* the next step of Start or Stop
          phase,     \* "start", "started", "failed", "stop" or "stopped"
          happened,  \* the events of Stop (and of a failed Start) so far
          isRunning, \* the flag
          live,      \* goroutines
          device     \* maixcam: "none", a connection just "accepted", then "served" or "missed"
lifeVars == <<kind, nextStep, phase, happened, isRunning, live, device>>

Life(name, start, stop, ends) == [name |-> name, start |-> start, stop |-> stop, ends |-> ends]
Ctx == {"ctx"}

TelegramLife ==
    Life("telegram", <<"ctx", "try_or_cancel", "updates", "try_or_cancel", "running", "commands", "handler">>,
         <<"idle", "handler", "ctx">>, [updates |-> Ctx, commands |-> Ctx, handler |-> Ctx \cup {"handler"}])
DiscordLife ==
    Life("discord", <<"ctx", "try", "try", "gateway", "running">>, <<"idle", "typing", "ctx", "socket">>,
         [gateway |-> {"socket"}])
SlackLife ==
    Life("slack", <<"ctx", "try", "events", "client", "running">>, <<"ctx", "idle">>,
         [events |-> Ctx, client |-> Ctx])
LineLife == Life("line", <<"ctx", "call", "running">>, <<"ctx", "idle">>, <<>>)
\* a Stop that forgets the channel done
QQLife_KeepsDone ==
    Life("qq", <<"ctx", "try", "token", "try", "session", "dedup", "running">>, <<"idle", "ctx">>,
         [token |-> Ctx, session |-> {}, dedup |-> {"done"}])
\* The session manager is given no context and no way to stop it.
QQLife ==
    Life("qq", <<"ctx", "try", "token", "try", "session", "dedup", "running">>, <<"idle", "done", "ctx">>,
         [token |-> Ctx, session |-> {}, dedup |-> {"done"}])
DingTalkLife ==
    Life("dingtalk", <<"ctx", "try", "stream", "running">>, <<"ctx", "socket", "idle">>, [stream |-> Ctx \cup {"socket"}])
FeishuLife == Life("feishu", <<"call", "ctx", "running", "ws">>, <<"ctx", "idle">>, [ws |-> Ctx])
IRCLife == Life("irc", <<"ctx", "try", "loop", "running">>, <<"idle", "socket", "ctx">>, [loop |-> {"socket"}])
MatrixLife ==
    Life("matrix", <<"ctx", "running", "rooms", "sync">>, <<"idle", "ctx", "typing">>, [rooms |-> Ctx, sync |-> Ctx])
MaixCamLife ==
    Life("maixcam", <<"ctx", "try_or_cancel", "running", "accept">>, <<"idle", "ctx", "listener", "clients">>,
         [accept |-> {"listener"}, client |-> {"clients"}])
WhatsAppLife ==
    Life("whatsapp", <<"ctx", "try_or_cancel", "running", "listen">>, <<"ctx", "socket", "idle">>, [listen |-> Ctx])
WeComBotLife == Life("wecom", <<"ctx", "running">>, <<"ctx", "idle">>, <<>>)
WeComAppLife == Life("wecom_app", <<"ctx", "call", "refresh", "running">>, <<"ctx", "idle">>, [refresh |-> Ctx])
AIBotLife    == Life("wecom_aibot", <<"ctx", "cleanup", "running">>, <<"ctx", "idle">>, [cleanup |-> Ctx])

Lives == {TelegramLife, DiscordLife, SlackLife, LineLife, QQLife, DingTalkLife, FeishuLife, IRCLife,
          MatrixLife, MaixCamLife, WhatsAppLife, WeComBotLife, WeComAppLife, AIBotLife}

LifeInit ==
    /\ kind \in Lives /\ nextStep = 1 /\ phase = "start" /\ happened = {} /\ isRunning = FALSE
    /\ live = {} /\ device = "none"

\* One step of Start, or its end.
StartStep ==
    /\ phase = "start"
    /\ IF nextStep > Len(kind.start) THEN phase' = "started" /\ nextStep' = 1 /\ UNCHANGED <<happened, isRunning, live>>
       ELSE LET step == kind.start[nextStep]
            IN  \/ /\ nextStep' = nextStep + 1 /\ isRunning' = (isRunning \/ step = "running")
                   /\ live' = live \cup ({step} \cap DOMAIN kind.ends) /\ UNCHANGED <<phase, happened>>
                \/ /\ step \in {"try", "try_or_cancel"} /\ phase' = "failed" /\ nextStep' = 1
                   /\ happened' = IF step = "try" THEN happened ELSE happened \cup {"ctx"}
                   /\ UNCHANGED <<isRunning, live>>
    /\ UNCHANGED <<kind, device>>
\* StopAll: every channel that the manager has.
StopBegins ==
    /\ phase \in {"started", "failed"} /\ phase' = "stop" /\ nextStep' = 1
    /\ UNCHANGED <<kind, happened, isRunning, live, device>>
StopStep ==
    /\ phase = "stop"
    /\ IF nextStep > Len(kind.stop) THEN phase' = "stopped" /\ UNCHANGED <<nextStep, happened, isRunning>>
       ELSE /\ nextStep' = nextStep + 1 /\ UNCHANGED phase
            /\ IF kind.stop[nextStep] = "idle" THEN isRunning' = FALSE /\ UNCHANGED happened
               ELSE happened' = happened \cup {kind.stop[nextStep]} /\ UNCHANGED isRunning
    /\ UNCHANGED <<kind, live, device>>

\* A goroutine sees one of the events that end it.
Ends(g) ==
    /\ g \in live /\ kind.ends[g] \cap happened # {} /\ live' = live \ {g}
    /\ UNCHANGED <<kind, nextStep, phase, happened, isRunning, device>>
\* qq: the session manager gives up, and its goroutine clears the flag.
SessionFails ==
    /\ "session" \in live /\ live' = live \ {"session"} /\ isRunning' = FALSE
    /\ UNCHANGED <<kind, nextStep, phase, happened, device>>

\* maixcam: Accept returns a connection, which is then entered in the table of clients
\* and served.  Stop closes what is in the table by the time it looks.
DeviceConnects ==
    /\ "accept" \in live /\ "listener" \notin happened /\ device = "none" /\ device' = "accepted"
    /\ UNCHANGED <<kind, nextStep, phase, happened, isRunning, live>>
DeviceServed ==
    /\ device = "accepted"
    /\ device' = IF "clients" \in happened THEN "missed" ELSE "served"
    /\ live' = live \cup {IF "clients" \in happened THEN "late client" ELSE "client"}
    /\ UNCHANGED <<kind, nextStep, phase, happened, isRunning>>

LifeNext ==
    \/ StartStep \/ StopBegins \/ StopStep \/ SessionFails \/ DeviceConnects \/ DeviceServed
    \/ \E g \in live : g # "late client" /\ Ends(g)
LifeFairness ==
    /\ WF_lifeVars(StartStep) /\ WF_lifeVars(StopStep) /\ WF_lifeVars(DeviceServed)
    /\ WF_lifeVars(\E g \in live : g # "late client" /\ Ends(g))
LifeSpec == LifeInit /\ [][LifeNext]_lifeVars /\ LifeFairness
-----------------------------------------------------------------------------
\* Goroutines that nothing in the code ends: QQ's session, and a device that connects
\* to MaixCam while it stops (maixcam.go:100, 234).
Immortal == {"session", "late client"}

\* After a stop, also of a channel whose start failed half-way, nothing of the channel
\* goes on, whatever had been started by then.
NothingSurvives ==
    (phase = "stop") ~>
        (phase = "stopped" /\ live \subseteq Immortal /\ ~isRunning)
=============================================================================
